---- MODULE Spec2Model ----
(***************************************************************************)
(* Model of the bincode-ts codec (src/src/index.ts, src/src/utils.ts):     *)
(* the recursive encode / decode engine over type descriptors, the varint  *)
(* and zigzag integer codec, and the DataView accessors it is built on;    *)
(* and of the Encoder / Decoder API the package also exports.              *)
(*                                                                         *)
(* JavaScript numbers and bigints are held as two's-complement bit vectors *)
(* (bit i has weight 2^(i-1)), because the values the codec handles reach  *)
(* 2^128 and its arithmetic is bitwise (<<, >>, >>>, ^, &).                *)
(***************************************************************************)
EXTENDS Integers, Sequences, FiniteSets, TLC

VARIABLES type, value, config, buffer, start, prev, enc, dec, pc, encoder, decoder, bincode, view

vars == <<type, value, config, buffer, start, prev, enc, dec, pc, encoder, decoder, bincode, view>>

---------------------------------------------------------------------------
(* Bounds of the model *)

\* width of the bit vectors that hold numbers and bigints
BITS == 136
\* length of the caller's ArrayBuffer
BufSize == 272
\* longest collection / string drawn exhaustively from the sample sets
MaxLen == 2
\* length of the caller's ArrayBuffer in the runs with a start offset
EdgeBufSize == 48
\* element count of the long collection and the long string (first count
\* whose varint needs a 251 prefix)
LongCount == 251
\* largest received count of a collection of zero-width elements
WireCountCap == 250

---------------------------------------------------------------------------
(* Bit vectors *)

Idx == 1..BITS

Zero == [i \in Idx |-> 0]

FromNat(n) == [i \in Idx |-> IF i <= 31 THEN (n \div (2 ^ (i - 1))) % 2 ELSE 0]

Pow2(k) == [i \in Idx |-> IF i = k + 1 THEN 1 ELSE 0]

\* 2^n - 1
Ones(n) == [i \in Idx |-> IF i <= n THEN 1 ELSE 0]

Not(a) == [i \in Idx |-> 1 - a[i]]

Inc(a) == [i \in Idx |-> IF \A j \in 1..(i - 1) : a[j] = 1 THEN 1 - a[i] ELSE a[i]]

Dec(a) == [i \in Idx |-> IF \A j \in 1..(i - 1) : a[j] = 0 THEN 1 - a[i] ELSE a[i]]

Neg(a) == Inc(Not(a))

FromInt(n) == IF n >= 0 THEN FromNat(n) ELSE Neg(FromNat(0 - n))

Xor(a, b) == [i \in Idx |-> (a[i] + b[i]) % 2]

And(a, b) == [i \in Idx |-> a[i] * b[i]]

Or(a, b) == [i \in Idx |-> IF a[i] + b[i] > 0 THEN 1 ELSE 0]

Shl(a, k) == [i \in Idx |-> IF i > k THEN a[i - k] ELSE 0]

\* arithmetic (sign-propagating) right shift
Sar(a, k) == [i \in Idx |-> IF i + k <= BITS THEN a[i + k] ELSE a[BITS]]

IsNeg(a) == a[BITS] = 1

Less(a, b) ==
    IF a[BITS] # b[BITS]
    THEN a[BITS] = 1
    ELSE \E i \in Idx : a[i] < b[i] /\ \A j \in (i + 1)..BITS : a[j] = b[j]

LessEq(a, b) == a = b \/ Less(a, b)

\* BigInt.asUintN(n, a) / ToUint8, ToUint16, ToUint32
AsUintN(a, n) == [i \in Idx |-> IF i <= n THEN a[i] ELSE 0]

\* BigInt.asIntN(n, a) / ToInt32
AsIntN(a, n) == [i \in Idx |-> IF i <= n THEN a[i] ELSE a[n]]

\* the n-th byte (n = 0 is the least significant) of a
ByteAt(a, n) ==
    a[8 * n + 1] + 2 * a[8 * n + 2] + 4 * a[8 * n + 3] + 8 * a[8 * n + 4]
    + 16 * a[8 * n + 5] + 32 * a[8 * n + 6] + 64 * a[8 * n + 7] + 128 * a[8 * n + 8]

\* the unsigned number whose little-endian bytes are bs
FromBytesLE(bs) ==
    [i \in Idx |-> IF i <= 8 * Len(bs)
                   THEN (bs[((i - 1) \div 8) + 1] \div (2 ^ ((i - 1) % 8))) % 2
                   ELSE 0]

Reverse(s) == [i \in 1..Len(s) |-> s[Len(s) + 1 - i]]

\* a non-negative bit vector below 2^30 as an integer of the model
ToNat(a) ==
    ByteAt(a, 0) + 256 * ByteAt(a, 1) + 65536 * ByteAt(a, 2) + 16777216 * (ByteAt(a, 3) % 64)

FitsNat(a) == \A i \in 31..BITS : a[i] = 0

\* floor(log2 m) of a positive m
HighBit(m) == (CHOOSE i \in Idx : m[i] = 1 /\ \A j \in (i + 1)..BITS : m[j] = 0) - 1

\* the IEEE 754 binary format with p fraction bits and w exponent bits
\* (binary32: p = 23, w = 8; binary64: p = 52, w = 11) of the integer a,
\* rounded to nearest, ties to even; infinity past the largest exponent
FloatBits(a, p, w) ==
    IF a = Zero THEN Zero
    ELSE LET bias == 2 ^ (w - 1) - 1
             sign == IF IsNeg(a) THEN Pow2(p + w) ELSE Zero
             m == IF IsNeg(a) THEN Neg(a) ELSE a
             e == HighBit(m)
             shift == e - p
             q == IF shift <= 0 THEN Shl(m, 0 - shift) ELSE Sar(m, shift)
             r == IF shift <= 0 THEN Zero ELSE And(m, Ones(shift))
             half == IF shift <= 0 THEN Pow2(0) ELSE Pow2(shift - 1)
             up == shift > 0 /\ (Less(half, r) \/ (r = half /\ q[1] = 1))
             rounded == IF up THEN Inc(q) ELSE q
             carry == rounded = Pow2(p + 1)
             exponent == IF carry THEN e + 1 ELSE e
             fraction == IF carry THEN Zero ELSE And(rounded, Ones(p))
         IN IF exponent > bias
            THEN Or(sign, Shl(Ones(w), p))
            ELSE Or(sign, Or(Shl(FromNat(exponent + bias), p), fraction))

\* the quiet NaN of the format
FloatNaN(p, w) == Shl(Ones(w + 1), p - 1)

---------------------------------------------------------------------------
(* JavaScript values                                                       *)
(*   number / bigint : [k, v]  v a bit vector                              *)
(*   boolean         : [k, b]  b a BOOLEAN                                 *)
(*   string          : [k, s]  s a sequence of Unicode scalar values       *)
(*   array           : [k, items]  a sequence of values                    *)
(*   object          : [k, entries]  a function from field names to values *)
(*   enum value      : [k, variant, value]   (EnumVariantValue)            *)
(*   null, undefined : [k]                                                 *)

Num(a) == [k |-> "number", v |-> a]

Big(a) == [k |-> "bigint", v |-> a]

Bool(b) == [k |-> "boolean", b |-> b]

Str(s) == [k |-> "string", s |-> s]

Arr(s) == [k |-> "array", items |-> s]

Obj(f) == [k |-> "object", entries |-> f]

\* a number that is no integer of the model (a fraction, -0, an infinity, a
\* NaN, or an integer too large for a bit vector), held as its IEEE 754 bits
Float(bits, p) == [k |-> "float", bits |-> bits, p |-> p]

Null == [k |-> "null"]

Undefined == [k |-> "undefined"]

EnumVariantValue(variant, val) == [k |-> "variant", variant |-> variant, value |-> val]

\* ToNumber followed by the integer conversion of the DataView setters
\* (NaN, as from undefined, becomes 0)
ToNumber(val) ==
    CASE val.k = "number" -> val.v
      [] val.k = "boolean" -> IF val.b THEN FromNat(1) ELSE Zero
      [] OTHER -> Zero

---------------------------------------------------------------------------
(* Constants of src/src/index.ts *)

U8_MAX == 250
U16_FLAG == 251
U16_MAX == 65535
U32_FLAG == 252
U32_MAX == Ones(32)
I32_MIN == Neg(Pow2(31))
U64_FLAG == 253
U64_MAX == Ones(64)
I64_MIN == Neg(Pow2(63))
U128_FLAG == 254
U128_MIN == Neg(Pow2(127))
U128_MAX == Ones(128)

\* config.limit === undefined
NoLimit == 0 - 1

---------------------------------------------------------------------------
(* Type descriptors: [kind], and for the composite kinds                   *)
(*   tuple      [kind, elems]          elems a sequence of descriptors     *)
(*   array      [kind, element, size]                                      *)
(*   collection [kind, element]                                            *)
(*   struct     [kind, fields]         fields a sequence of [name, type]   *)
(*   enum       [kind, variants]       a sequence of [name, expr, vkind]   *)
(*   option     [kind, optionType]                                         *)

TypeKindMarker(kind) == [kind |-> kind]

u8 == TypeKindMarker("u8")
u16 == TypeKindMarker("u16")
u32 == TypeKindMarker("u32")
u64 == TypeKindMarker("u64")
u128 == TypeKindMarker("u128")
i8 == TypeKindMarker("i8")
i16 == TypeKindMarker("i16")
i32 == TypeKindMarker("i32")
i64 == TypeKindMarker("i64")
i128 == TypeKindMarker("i128")
bool == TypeKindMarker("bool")
String == TypeKindMarker("String")
f16 == TypeKindMarker("f16")
f32 == TypeKindMarker("f32")
f64 == TypeKindMarker("f64")
f128 == TypeKindMarker("f128")

Tuple(elems) == [kind |-> "tuple", elems |-> elems]

Unit == Tuple(<<>>)

Array(element, size) == [kind |-> "array", element |-> element, size |-> size]

Collection(element) == [kind |-> "collection", element |-> element]

Struct(fields) == [kind |-> "struct", fields |-> fields]

\* a variant declared as _(expr, vkind); vkind = Null for _(expr)
Variant(name, expr, vkind) == [name |-> name, expr |-> expr, vkind |-> vkind]

Enum(variants) == [kind |-> "enum", variants |-> variants]

Option(t) == [kind |-> "option", optionType |-> t]

isInt(t) == t.kind \in {"u8", "u16", "u32", "u64", "u128", "i8", "i16", "i32", "i64", "i128"}

isSigned(t) == t.kind \in {"i8", "i16", "i32", "i64", "i128"}

---------------------------------------------------------------------------
(* DataView over the caller's ArrayBuffer.  A cursor state st is           *)
(* [buffer, offset, err]; err = "none" until an exception is thrown, and   *)
(* every later step is skipped once it is set (the exception propagates).  *)

Fail(st, kind) == IF st.err = "none" THEN [st EXCEPT !.err = kind] ELSE st

\* variant: the byte count of the last write returned as the offset
Advance_FromZero(st, n) == IF st.err = "none" THEN [st EXCEPT !.offset = n] ELSE st

Advance(st, n) == IF st.err = "none" THEN [st EXCEPT !.offset = @ + n] ELSE st

\* the n low bytes of a, in the configured byte order
IntBytes(a, n, littleEndian) ==
    LET le == [i \in 1..n |-> ByteAt(a, i - 1)]
    IN IF littleEndian THEN le ELSE Reverse(le)

\* a bounds-checked store of bytes at offset: RangeError when it does not fit
Store(st, offset, bytes) ==
    IF st.err # "none" THEN st
    ELSE IF offset < 0 \/ offset + Len(bytes) > Len(st.buffer) THEN Fail(st, "RangeError")
    ELSE [st EXCEPT !.buffer = [i \in 1..Len(st.buffer) |->
              IF i > offset /\ i <= offset + Len(bytes) THEN bytes[i - offset] ELSE @[i]]]

\* setUint8 / setInt8 / setUint16 / setInt16 / setUint32 / setInt32: ToNumber,
\* then the value modulo 2^(8n); a bigint argument is a TypeError
SetNumber(st, offset, val, n, littleEndian) ==
    IF st.err # "none" THEN st
    ELSE IF val.k = "bigint" THEN Fail(st, "TypeError")
    ELSE Store(st, offset, IntBytes(ToNumber(val), n, littleEndian))

\* variant: a 16-bit store where one byte is meant
setUint8_Wide(st, offset, val) == SetNumber(st, offset, val, 2, TRUE)

setUint8(st, offset, val) == SetNumber(st, offset, val, 1, TRUE)
setInt8(st, offset, val) == SetNumber(st, offset, val, 1, TRUE)
setUint16(st, offset, val, littleEndian) == SetNumber(st, offset, val, 2, littleEndian)
setInt16(st, offset, val, littleEndian) == SetNumber(st, offset, val, 2, littleEndian)
setUint32(st, offset, val, littleEndian) == SetNumber(st, offset, val, 4, littleEndian)
setInt32(st, offset, val, littleEndian) == SetNumber(st, offset, val, 4, littleEndian)

\* setBigUint64 / setBigInt64: ToBigInt (TypeError unless bigint or boolean),
\* then the value modulo 2^64
SetBigInt(st, offset, val, littleEndian) ==
    IF st.err # "none" THEN st
    ELSE IF val.k \notin {"bigint", "boolean"} THEN Fail(st, "TypeError")
    ELSE Store(st, offset, IntBytes(IF val.k = "bigint" THEN val.v ELSE ToNumber(val), 8, littleEndian))

setBigUint64(st, offset, val, littleEndian) == SetBigInt(st, offset, val, littleEndian)
setBigInt64(st, offset, val, littleEndian) == SetBigInt(st, offset, val, littleEndian)

\* src/src/utils.ts
setU128(st, offset, val, littleEndian) ==
    IF st.err # "none" THEN st
    ELSE IF val.k # "bigint" THEN Fail(st, "TypeError")
    ELSE IF Less(val.v, Zero) \/ LessEq(Pow2(128), val.v) THEN Fail(st, "BigintOutOfRange")
    ELSE LET low64 == Big(And(val.v, Ones(64)))
             high64 == Big(Sar(val.v, 64))
         IN IF littleEndian
            THEN setBigUint64(setBigUint64(st, offset, low64, TRUE), offset + 8, high64, TRUE)
            ELSE setBigUint64(setBigUint64(st, offset, high64, FALSE), offset + 8, low64, FALSE)

setI128(st, offset, val, littleEndian) ==
    IF st.err # "none" THEN st
    ELSE IF val.k # "bigint" THEN Fail(st, "TypeError")
    ELSE LET minI128 == Neg(Pow2(127))
             maxI128 == Dec(Pow2(127))
         IN IF Less(val.v, minI128) \/ Less(maxI128, val.v) THEN Fail(st, "BigintOutOfRange")
            ELSE LET unsignedValue == IF Less(val.v, Zero) THEN AsUintN(val.v, 128) ELSE val.v
                 IN setU128(st, offset, Big(unsignedValue), littleEndian)

\* setFloat32 / setFloat64: ToNumber (a TypeError for a bigint, NaN for
\* undefined), then the nearest value of the format
SetFloat(st, offset, val, p, w, littleEndian) ==
    IF st.err # "none" THEN st
    ELSE IF val.k = "bigint" THEN Fail(st, "TypeError")
    ELSE LET bits == CASE val.k \in {"number", "boolean"} -> FloatBits(ToNumber(val), p, w)
                       [] val.k = "float" /\ val.p = p -> val.bits
                       [] val.k = "null" -> Zero
                       [] OTHER -> FloatNaN(p, w)
         IN Store(st, offset, IntBytes(bits, (p + w + 1) \div 8, littleEndian))

setFloat32(st, offset, val, littleEndian) == SetFloat(st, offset, val, 23, 8, littleEndian)
setFloat64(st, offset, val, littleEndian) == SetFloat(st, offset, val, 52, 11, littleEndian)

---------------------------------------------------------------------------
(* TextEncoder: the UTF-8 bytes of a string (a sequence of scalar values) *)

Utf8Char(cp) ==
    IF cp < 128 THEN <<cp>>
    ELSE IF cp < 2048 THEN <<192 + (cp \div 64), 128 + (cp % 64)>>
    ELSE IF cp < 65536
    THEN <<224 + (cp \div 4096), 128 + ((cp \div 64) % 64), 128 + (cp % 64)>>
    ELSE <<240 + (cp \div 262144), 128 + ((cp \div 4096) % 64),
           128 + ((cp \div 64) % 64), 128 + (cp % 64)>>

RECURSIVE Utf8Range(_, _, _)
Utf8Range(s, lo, hi) ==
    IF lo >= hi THEN <<>>
    ELSE IF hi = lo + 1 THEN Utf8Char(s[hi])
    ELSE LET mid == (lo + hi) \div 2
         IN Utf8Range(s, lo, mid) \o Utf8Range(s, mid, hi)

\* new TextEncoder().encode(value as string)
TextEncode(val) == IF val.k = "string" THEN Utf8Range(val.s, 0, Len(val.s)) ELSE <<>>

---------------------------------------------------------------------------
(* encode, src/src/index.ts *)

ReturnAt(st, offset) == IF st.err = "none" THEN [st EXCEPT !.offset = offset] ELSE st

isType(t) == "kind" \in DOMAIN t

\* variant: u8 and i8 take the varint path like the wider integers
UsesVarint_EveryInt(t, isVariantIntEncoding) == isVariantIntEncoding /\ isInt(t)

\* the guard of the varint path, the same in encode and decode
UsesVarint(t, isVariantIntEncoding) ==
    isVariantIntEncoding /\ isInt(t) /\ t.kind # "u8" /\ t.kind # "i8"

\* variant: a call entered exactly at the limit is let through
OverLimit_Beyond(offset, cfg) == cfg.limit # NoLimit /\ offset > cfg.limit

\* the limit test on entry to every encode and decode call
OverLimit(offset, cfg) == cfg.limit # NoLimit /\ offset >= cfg.limit

IsNumeric(val) == val.k \in {"number", "bigint", "boolean"}

\* the numeric value of a number, bigint or boolean
Bits(val) == IF val.k = "bigint" THEN val.v ELSE ToNumber(val)

\* ZigzagInt without the special cases for the most negative values
ZigzagInt_NoMinCase(int, t) ==
    IF isSigned(t)
    THEN IF int.k = "number"
         THEN Num(Xor(AsIntN(Shl(AsIntN(int.v, 32), 1), 32), Sar(AsIntN(int.v, 32), 31)))
         ELSE IF int.k \notin {"bigint", "boolean"}
         THEN [k |-> "TypeError"]
         ELSE IF t.kind = "i64"
         THEN Big(AsIntN(Xor(Shl(Bits(int), 1), Sar(Bits(int), 63)), 64))
         ELSE Big(AsIntN(Xor(Shl(Bits(int), 1), Sar(Bits(int), 127)), 128))
    ELSE int

\* the zigzag step of variantIntEncoding; [k |-> "TypeError"] when BigInt(int) throws
ZigzagInt(int, t) ==
    IF isSigned(t)
    THEN IF int.k = "number"
         THEN IF int.v = I32_MIN
              THEN Num(U32_MAX)
              ELSE Num(Xor(AsIntN(Shl(AsIntN(int.v, 32), 1), 32), Sar(AsIntN(int.v, 32), 31)))
         ELSE IF int.k \notin {"bigint", "boolean"}
         THEN [k |-> "TypeError"]
         ELSE IF t.kind = "i64"
         THEN IF int = Big(I64_MIN)
              THEN Big(U64_MAX)
              ELSE Big(Xor(Shl(Bits(int), 1), Sar(Bits(int), 63)))
         ELSE IF int = Big(U128_MIN)
              THEN Big(U128_MAX)
              ELSE Big(Xor(Shl(Bits(int), 1), Sar(Bits(int), 127)))
    ELSE int

\* variantIntEncoding with the single-byte range ending at 249 instead of 250
variantIntEncoding_Strict(int, st, offset, t, isLittleEndian) ==
    LET zigzagInt == ZigzagInt(int, t)
    IN IF st.err # "none" THEN st
       ELSE IF zigzagInt.k = "TypeError" THEN Fail(st, "TypeError")
       ELSE IF ~IsNumeric(zigzagInt)
       THEN Fail(setUint8(st, offset, Num(FromNat(U128_FLAG))), "TypeError")
       ELSE LET z == Bits(zigzagInt)
            IN IF Less(z, Zero) THEN Fail(st, "InvalidLength")
               ELSE IF Less(z, FromNat(U8_MAX))
               THEN ReturnAt(setUint8(st, offset, Num(z)), offset + 1)
               ELSE IF LessEq(z, FromNat(U16_MAX))
               THEN ReturnAt(setUint16(setUint8(st, offset, Num(FromNat(U16_FLAG))),
                                       offset + 1, Num(z), isLittleEndian), offset + 3)
               ELSE IF LessEq(z, U32_MAX)
               THEN ReturnAt(setUint32(setUint8(st, offset, Num(FromNat(U32_FLAG))),
                                       offset + 1, Num(z), isLittleEndian), offset + 5)
               ELSE IF LessEq(z, U64_MAX)
               THEN ReturnAt(setBigUint64(setUint8(st, offset, Num(FromNat(U64_FLAG))),
                                          offset + 1, Big(z), isLittleEndian), offset + 9)
               ELSE ReturnAt(setU128(setUint8(st, offset, Num(FromNat(U128_FLAG))),
                                     offset + 1, Big(z), isLittleEndian), offset + 17)

variantIntEncoding(int, st, offset, t, isLittleEndian) ==
    LET zigzagInt == ZigzagInt(int, t)
    IN IF st.err # "none" THEN st
       ELSE IF zigzagInt.k = "TypeError" THEN Fail(st, "TypeError")
       ELSE IF ~IsNumeric(zigzagInt)
       THEN \* every comparison with NaN is false: the last branch, where BigInt() throws
            Fail(setUint8(st, offset, Num(FromNat(U128_FLAG))), "TypeError")
       ELSE LET z == Bits(zigzagInt)
            IN IF Less(z, Zero) THEN Fail(st, "InvalidLength")
               ELSE IF LessEq(z, FromNat(U8_MAX))
               THEN ReturnAt(setUint8(st, offset, Num(z)), offset + 1)
               ELSE IF LessEq(z, FromNat(U16_MAX))
               THEN ReturnAt(setUint16(setUint8(st, offset, Num(FromNat(U16_FLAG))),
                                       offset + 1, Num(z), isLittleEndian), offset + 3)
               ELSE IF LessEq(z, U32_MAX)
               THEN ReturnAt(setUint32(setUint8(st, offset, Num(FromNat(U32_FLAG))),
                                       offset + 1, Num(z), isLittleEndian), offset + 5)
               ELSE IF LessEq(z, U64_MAX)
               THEN ReturnAt(setBigUint64(setUint8(st, offset, Num(FromNat(U64_FLAG))),
                                          offset + 1, Big(z), isLittleEndian), offset + 9)
               ELSE ReturnAt(setU128(setUint8(st, offset, Num(FromNat(U128_FLAG))),
                                     offset + 1, Big(z), isLittleEndian), offset + 17)

\* value[index] of an array value; undefined past its end
Index(val, index) ==
    IF val.k = "array" /\ index < Len(val.items) THEN val.items[index + 1] ELSE Undefined

\* value[field] of an object value
Field(val, name) ==
    IF val.k = "object" /\ name \in DOMAIN val.entries THEN val.entries[name] ELSE Undefined

\* value.length
Length(val) == IF val.k = "array" THEN Len(val.items) ELSE IF val.k = "string" THEN Len(val.s) ELSE 0

\* enumType[name]; Null when the enum declares no such variant
VariantNamed(t, name) ==
    IF \E i \in 1..Len(t.variants) : t.variants[i].name = name
    THEN t.variants[CHOOSE i \in 1..Len(t.variants) : t.variants[i].name = name]
    ELSE Null

RECURSIVE encode(_, _, _, _)
RECURSIVE encodeEach(_, _, _, _, _, _)

\* variant: a failing loop gives the buffer back as it found it
encodeEach_Rollback(types, values, lo, hi, st, cfg) ==
    LET r == IF st.err # "none" \/ lo >= hi THEN st
             ELSE IF hi = lo + 1 THEN encode(types[hi], values[hi], st, cfg)
             ELSE LET mid == (lo + hi) \div 2
                  IN encodeEach(types, values, mid, hi, encodeEach(types, values, lo, mid, st, cfg), cfg)
    IN IF r.err = "none" THEN r ELSE [r EXCEPT !.buffer = st.buffer]

\* the for loops of encode: children lo+1..hi in order, each at the offset the
\* previous one returned (the range is halved to keep the evaluation shallow)
encodeEach(types, values, lo, hi, st, cfg) ==
    IF st.err # "none" \/ lo >= hi THEN st
    ELSE IF hi = lo + 1 THEN encode(types[hi], values[hi], st, cfg)
    ELSE LET mid == (lo + hi) \div 2
         IN encodeEach(types, values, mid, hi, encodeEach(types, values, lo, mid, st, cfg), cfg)

encodeString(val, st, cfg) ==
    LET encoded == TextEncode(val)
        isLittleEndian == cfg.endian = "little"
        prefix == IF cfg.intEncoding = "variant"
                  THEN variantIntEncoding(Num(FromNat(Len(encoded))), st, st.offset, u64, isLittleEndian)
                  ELSE Advance(setBigUint64(st, st.offset, Big(FromNat(Len(encoded))), isLittleEndian), 8)
    IN Advance(Store(prefix, prefix.offset, encoded), Len(encoded))

encodeTuple(t, val, st, cfg) ==
    IF Len(t.elems) = 1
    THEN encode(t.elems[1], val, st, cfg)
    ELSE IF Len(t.elems) > 0 /\ val.k \in {"null", "undefined"} THEN Fail(st, "TypeError")
    ELSE encodeEach(t.elems, [i \in 1..Len(t.elems) |-> Index(val, i - 1)],
                    0, Len(t.elems), st, cfg)

\* encodeArray that writes the size as a length prefix, as for a collection
encodeArray_Prefixed(t, val, st, cfg) ==
    LET isLittleEndian == cfg.endian = "little"
        prefix == IF cfg.intEncoding = "variant"
                  THEN variantIntEncoding(Num(FromNat(t.size)), st, st.offset, u64, isLittleEndian)
                  ELSE Advance(setBigUint64(st, st.offset, Big(FromNat(t.size)), isLittleEndian), 8)
    IN encodeEach([i \in 1..t.size |-> t.element], [i \in 1..t.size |-> Index(val, i - 1)],
                  0, t.size, prefix, cfg)

encodeArray(t, val, st, cfg) ==
    IF t.size > 0 /\ val.k \in {"null", "undefined"} THEN Fail(st, "TypeError")
    ELSE encodeEach([i \in 1..t.size |-> t.element], [i \in 1..t.size |-> Index(val, i - 1)],
                    0, t.size, st, cfg)

encodeStruct(t, val, st, cfg) ==
    IF Len(t.fields) > 0 /\ val.k \in {"null", "undefined"} THEN Fail(st, "TypeError")
    ELSE encodeEach([i \in 1..Len(t.fields) |-> t.fields[i].type],
                    [i \in 1..Len(t.fields) |-> Field(val, t.fields[i].name)],
                    0, Len(t.fields), st, cfg)

\* encodeEnum that writes the variant's position instead of its declared discriminant
encodeEnum_Position(t, val, st, cfg) ==
    LET variant == IF val.k = "variant" THEN VariantNamed(t, val.variant) ELSE Null
        isLittleEndian == cfg.endian = "little"
    IN IF variant = Null THEN Fail(st, "TypeError")
       ELSE LET variantIndex ==
                    Num(FromNat((CHOOSE i \in 1..Len(t.variants) : t.variants[i] = variant) - 1))
                tagged == IF cfg.intEncoding = "variant"
                          THEN variantIntEncoding(variantIndex, st, st.offset, u32, isLittleEndian)
                          ELSE Advance(setUint32(st, st.offset, variantIndex, isLittleEndian), 4)
            IN IF variant.vkind # Null
               THEN encode(variant.vkind, val.value, tagged, cfg)
               ELSE tagged

encodeEnum(t, val, st, cfg) ==
    LET variant == IF val.k = "variant" THEN VariantNamed(t, val.variant) ELSE Null
        isLittleEndian == cfg.endian = "little"
    IN IF variant = Null THEN Fail(st, "TypeError")
       ELSE LET variantIndex == Num(variant.expr)
                tagged == IF cfg.intEncoding = "variant"
                          THEN variantIntEncoding(variantIndex, st, st.offset, u32, isLittleEndian)
                          ELSE Advance(setUint32(st, st.offset, variantIndex, isLittleEndian), 4)
            IN IF variant.vkind # Null
               THEN encode(variant.vkind, val.value, tagged, cfg)
               ELSE tagged

encodeOption(t, val, st, cfg) ==
    IF val.k \in {"null", "undefined"}
    THEN Advance(setUint8(st, st.offset, Num(FromNat(0))), 1)
    ELSE encode(t.optionType, val, Advance(setUint8(st, st.offset, Num(FromNat(1))), 1), cfg)

\* encodeCollection that writes the count as a varint in both modes
encodeCollection_Varint(t, val, st, cfg) ==
    LET n == Length(val)
        prefix == variantIntEncoding(Num(FromNat(n)), st, st.offset, u64, cfg.endian = "little")
    IN IF val.k \in {"null", "undefined"} THEN Fail(st, "TypeError")
       ELSE encodeEach([i \in 1..n |-> t.element], [i \in 1..n |-> Index(val, i - 1)],
                       0, n, prefix, cfg)

encodeCollection(t, val, st, cfg) ==
    LET n == Length(val)
        isLittleEndian == cfg.endian = "little"
        prefix == IF cfg.intEncoding = "variant"
                  THEN variantIntEncoding(Num(FromNat(n)), st, st.offset, u64, isLittleEndian)
                  ELSE Advance(setBigUint64(st, st.offset, Big(FromNat(n)), isLittleEndian), 8)
    IN IF val.k \in {"null", "undefined"} THEN Fail(st, "TypeError")
       ELSE encodeEach([i \in 1..n |-> t.element], [i \in 1..n |-> Index(val, i - 1)],
                       0, n, prefix, cfg)

\* encode(type, value, buffer, offset, config): st carries buffer and offset in,
\* and the buffer, the returned offset and the exception (if any) out
encode(t, val, st, cfg) ==
    LET offset == st.offset
        isLittleEndian == cfg.endian = "little"
        isVariantIntEncoding == cfg.intEncoding = "variant"
    IN IF st.err # "none" THEN st
       ELSE IF OverLimit(offset, cfg) THEN Fail(st, "OverflowLimit")
       ELSE IF ~isType(t) THEN Fail(st, "InvalidType")
       ELSE IF UsesVarint(t, isVariantIntEncoding)
       THEN variantIntEncoding(val, st, offset, t, isLittleEndian)
       ELSE CASE t.kind = "u8" -> Advance(setUint8(st, offset, val), 1)
              [] t.kind = "u16" -> Advance(setUint16(st, offset, val, isLittleEndian), 2)
              [] t.kind = "u32" -> Advance(setUint32(st, offset, val, isLittleEndian), 4)
              [] t.kind = "u64" -> Advance(setBigUint64(st, offset, val, isLittleEndian), 8)
              [] t.kind = "u128" -> Advance(setU128(st, offset, val, isLittleEndian), 16)
              [] t.kind = "i8" -> Advance(setInt8(st, offset, val), 1)
              [] t.kind = "i16" -> Advance(setInt16(st, offset, val, isLittleEndian), 2)
              [] t.kind = "i32" -> Advance(setInt32(st, offset, val, isLittleEndian), 4)
              [] t.kind = "i64" -> Advance(setBigInt64(st, offset, val, isLittleEndian), 8)
              [] t.kind = "i128" -> Advance(setI128(st, offset, val, isLittleEndian), 16)
              [] t.kind = "f16" -> Fail(st, "Unimplemented")
              [] t.kind = "f32" -> Advance(setFloat32(st, offset, val, isLittleEndian), 4)
              [] t.kind = "f64" -> Advance(setFloat64(st, offset, val, isLittleEndian), 8)
              [] t.kind = "f128" -> Fail(st, "Unimplemented")
              [] t.kind = "bool" -> Advance(setUint8(st, offset, val), 1)
              [] t.kind = "String" -> encodeString(val, st, cfg)
              [] t.kind = "tuple" -> encodeTuple(t, val, st, cfg)
              [] t.kind = "array" -> encodeArray(t, val, st, cfg)
              [] t.kind = "struct" -> encodeStruct(t, val, st, cfg)
              [] t.kind = "enum" -> encodeEnum(t, val, st, cfg)
              [] t.kind = "option" -> encodeOption(t, val, st, cfg)
              [] t.kind = "collection" -> encodeCollection(t, val, st, cfg)
              [] OTHER -> st

---------------------------------------------------------------------------
(* TextDecoder: UTF-8 with replacement of ill-formed sequences by U+FFFD,  *)
(* and (ignoreBOM = false, the default) without a leading byte order mark  *)

REPLACEMENT == 65533
BOM == 65279

IsCont(bs, i, lower, upper) == i <= Len(bs) /\ bs[i] >= lower /\ bs[i] <= upper

\* the scalar value decoded at position i and the number of bytes it takes
Utf8Step(bs, i) ==
    LET b == bs[i]
        needed == IF b >= 194 /\ b <= 223 THEN 1
                  ELSE IF b >= 224 /\ b <= 239 THEN 2
                  ELSE IF b >= 240 /\ b <= 244 THEN 3 ELSE 0
        lower == IF b = 224 THEN 160 ELSE IF b = 240 THEN 144 ELSE 128
        upper == IF b = 237 THEN 159 ELSE IF b = 244 THEN 143 ELSE 191
        c1 == IsCont(bs, i + 1, lower, upper)
        c2 == c1 /\ IsCont(bs, i + 2, 128, 191)
        c3 == c2 /\ IsCont(bs, i + 3, 128, 191)
    IN IF b < 128 THEN [cp |-> b, n |-> 1]
       ELSE IF needed = 0 THEN [cp |-> REPLACEMENT, n |-> 1]
       ELSE IF needed = 1
       THEN IF c1 THEN [cp |-> (b % 32) * 64 + (bs[i + 1] % 64), n |-> 2]
            ELSE [cp |-> REPLACEMENT, n |-> 1]
       ELSE IF needed = 2
       THEN IF c2 THEN [cp |-> (b % 16) * 4096 + (bs[i + 1] % 64) * 64 + (bs[i + 2] % 64), n |-> 3]
            ELSE [cp |-> REPLACEMENT, n |-> IF c1 THEN 2 ELSE 1]
       ELSE IF c3 THEN [cp |-> (b % 8) * 262144 + (bs[i + 1] % 64) * 4096
                                + (bs[i + 2] % 64) * 64 + (bs[i + 3] % 64), n |-> 4]
            ELSE [cp |-> REPLACEMENT, n |-> IF c2 THEN 3 ELSE IF c1 THEN 2 ELSE 1]

\* the scalar values that start at positions i..j-1, and the position after them
RECURSIVE Utf8From(_, _, _)
Utf8From(bs, i, j) ==
    IF i >= j THEN [cps |-> <<>>, next |-> i]
    ELSE IF j = i + 1
    THEN LET s == Utf8Step(bs, i) IN [cps |-> <<s.cp>>, next |-> i + s.n]
    ELSE LET mid == (i + j) \div 2
             l == Utf8From(bs, i, mid)
             r == Utf8From(bs, l.next, j)
         IN [cps |-> l.cps \o r.cps, next |-> r.next]

\* new TextDecoder().decode(bytes)
TextDecode(bs) ==
    LET cps == Utf8From(bs, 1, Len(bs) + 1).cps
    IN IF Len(cps) > 0 /\ cps[1] = BOM THEN Str(Tail(cps)) ELSE Str(cps)

---------------------------------------------------------------------------
(* DataView getters: [value, offset, err]; offset is the cursor after a    *)
(* successful read                                                        *)

Ok(v, offset) == [value |-> v, offset |-> offset, err |-> "none"]

Err(kind, offset) == [value |-> Undefined, offset |-> offset, err |-> kind]

InBounds(buf, offset, n) == offset >= 0 /\ n >= 0 /\ offset + n <= Len(buf)

\* the n bytes at offset, least significant first
BytesLE(buf, offset, n, littleEndian) ==
    LET bs == SubSeq(buf, offset + 1, offset + n)
    IN IF littleEndian THEN bs ELSE Reverse(bs)

\* getUint8 / getUint16 / getUint32 / getBigUint64 as a bit vector
GetUint(buf, offset, n, littleEndian) == FromBytesLE(BytesLE(buf, offset, n, littleEndian))

\* getInt8 / getInt16 / getInt32 / getBigInt64
GetInt(buf, offset, n, littleEndian) == AsIntN(GetUint(buf, offset, n, littleEndian), 8 * n)

\* src/src/utils.ts; both 64-bit halves are in bounds when called
getU128(buf, offset, littleEndian) ==
    LET first == GetUint(buf, offset, 8, littleEndian)
        second == GetUint(buf, offset + 8, 8, littleEndian)
        low64 == IF littleEndian THEN first ELSE second
        high64 == IF littleEndian THEN second ELSE first
    IN Or(Shl(high64, 64), low64)

getI128(buf, offset, littleEndian) ==
    LET unsignedValue == getU128(buf, offset, littleEndian)
        maxI128 == Dec(Pow2(127))
    IN IF Less(maxI128, unsignedValue) THEN AsIntN(unsignedValue, 128) ELSE unsignedValue

\* the number an IEEE 754 bit pattern denotes: an integer of the model when
\* it is one, the bit pattern itself otherwise
FloatValue(bits, p, w) ==
    LET bias == 2 ^ (w - 1) - 1
        exponent == ToNat(And(Sar(bits, p), Ones(w))) - bias
        fraction == And(bits, Ones(p))
        full == Or(Pow2(p), fraction)
        m == IF exponent >= p THEN Shl(full, exponent - p) ELSE Sar(full, p - exponent)
    IN IF bits = Zero THEN Num(Zero)
       ELSE IF /\ exponent >= 0 /\ exponent <= bias /\ exponent <= BITS - 2
               /\ (exponent >= p \/ And(fraction, Ones(p - exponent)) = Zero)
       THEN Num(IF bits[p + w + 1] = 1 THEN Neg(m) ELSE m)
       ELSE Float(bits, p)

getFloat32(buf, offset, littleEndian) == FloatValue(GetUint(buf, offset, 4, littleEndian), 23, 8)
getFloat64(buf, offset, littleEndian) == FloatValue(GetUint(buf, offset, 8, littleEndian), 52, 11)

---------------------------------------------------------------------------
(* decode, src/src/index.ts *)

\* the unzigzag step of decodeVariantInt
Unzigzag(zigzagInt) ==
    IF zigzagInt.k = "bigint"
    THEN Big(Xor(Sar(zigzagInt.v, 1), Neg(And(zigzagInt.v, FromNat(1)))))
    ELSE Num(AsIntN(Xor(Sar(AsUintN(zigzagInt.v, 32), 1),
                        Neg(And(AsIntN(zigzagInt.v, 32), FromNat(1)))), 32))

\* decodeVariantInt that takes the flag 255 for a one-byte value
decodeVariantInt_Lenient(offset, buf, t, littleEndian) ==
    IF ~InBounds(buf, offset, 1) THEN Err("RangeError", offset)
    ELSE LET flag == buf[offset + 1]
             width == CASE flag = U16_FLAG -> 2
                        [] flag = U32_FLAG -> 4
                        [] flag = U64_FLAG -> 8
                        [] flag = U128_FLAG -> 16
                        [] OTHER -> 0
         IN IF ~InBounds(buf, offset + 1, width) THEN Err("RangeError", offset + 1)
            ELSE LET zigzagInt ==
                         IF flag <= U8_MAX \/ flag > U128_FLAG THEN Num(FromNat(flag))
                         ELSE IF flag = U16_FLAG THEN Num(GetUint(buf, offset + 1, 2, littleEndian))
                         ELSE IF flag = U32_FLAG THEN Num(GetUint(buf, offset + 1, 4, littleEndian))
                         ELSE IF flag = U64_FLAG THEN Big(GetUint(buf, offset + 1, 8, littleEndian))
                         ELSE Big(getU128(buf, offset + 1, littleEndian))
                 IN Ok(IF isSigned(t) THEN Unzigzag(zigzagInt) ELSE zigzagInt, offset + 1 + width)

decodeVariantInt(offset, buf, t, littleEndian) ==
    IF ~InBounds(buf, offset, 1) THEN Err("RangeError", offset)
    ELSE LET flag == buf[offset + 1]
             width == CASE flag = U16_FLAG -> 2
                        [] flag = U32_FLAG -> 4
                        [] flag = U64_FLAG -> 8
                        [] flag = U128_FLAG -> 16
                        [] OTHER -> 0
         IN IF flag > U128_FLAG THEN Err("BigintOutOfRange", offset + 1)
            ELSE IF ~InBounds(buf, offset + 1, width) THEN Err("RangeError", offset + 1)
            ELSE LET zigzagInt ==
                         IF flag <= U8_MAX THEN Num(FromNat(flag))
                         ELSE IF flag = U16_FLAG THEN Num(GetUint(buf, offset + 1, 2, littleEndian))
                         ELSE IF flag = U32_FLAG THEN Num(GetUint(buf, offset + 1, 4, littleEndian))
                         ELSE IF flag = U64_FLAG THEN Big(GetUint(buf, offset + 1, 8, littleEndian))
                         ELSE Big(getU128(buf, offset + 1, littleEndian))
                 IN Ok(IF isSigned(t) THEN Unzigzag(zigzagInt) ELSE zigzagInt, offset + 1 + width)

\* a fixed-width read of n bytes
ReadFixed(buf, offset, n, v) ==
    IF InBounds(buf, offset, n) THEN Ok(v, offset + n) ELSE Err("RangeError", offset)

\* Number(x) of a length or discriminant as a loop bound of the model: counts of
\* 2^30 and more exceed every buffer and are all taken as 2^30
Count(val) == IF FitsNat(Bits(val)) THEN ToNat(Bits(val)) ELSE 2 ^ 30

\* the u64 length prefix of a string or collection under the active encoding
decodeLength(buf, offset, cfg) ==
    IF cfg.intEncoding = "variant"
    THEN decodeVariantInt(offset, buf, u64, cfg.endian = "little")
    ELSE ReadFixed(buf, offset, 8, Big(GetUint(buf, offset, 8, cfg.endian = "little")))

\* indexed(e): the variant registered under a discriminant (the last one declared
\* with it); Null when there is none
Indexed(t, variantIndex) ==
    LET hits == {i \in 1..Len(t.variants) : t.variants[i].expr = variantIndex}
    IN IF hits = {} THEN Null
       ELSE t.variants[CHOOSE i \in hits : \A j \in hits : j <= i]

RECURSIVE decode(_, _, _, _)
RECURSIVE decodeEach(_, _, _, _, _, _)
RECURSIVE decodeRepeat(_, _, _, _, _, _)

\* the loops of decode over a tuple's or struct's children lo+1..hi; acc is
\* [value, offset, err] with value the sequence decoded so far
decodeEach(types, buf, lo, hi, acc, cfg) ==
    IF acc.err # "none" \/ lo >= hi THEN acc
    ELSE IF hi = lo + 1
    THEN LET r == decode(types[hi], buf, acc.offset, cfg)
         IN IF r.err # "none" THEN Err(r.err, r.offset)
            ELSE Ok(Append(acc.value, r.value), r.offset)
    ELSE LET mid == (lo + hi) \div 2
         IN decodeEach(types, buf, mid, hi, decodeEach(types, buf, lo, mid, acc, cfg), cfg)

\* the loops of decode over hi - lo elements of one type (a count read from
\* the wire can be far larger than the buffer: the range is then cut after
\* the first 256 elements rather than in the middle, so that the first
\* element is reached in a few steps)
decodeRepeat(element, buf, lo, hi, acc, cfg) ==
    IF acc.err # "none" \/ lo >= hi THEN acc
    ELSE IF hi = lo + 1
    THEN LET r == decode(element, buf, acc.offset, cfg)
         IN IF r.err # "none" THEN Err(r.err, r.offset)
            ELSE Ok(Append(acc.value, r.value), r.offset)
    ELSE LET mid == IF hi - lo > 512 THEN lo + 256 ELSE (lo + hi) \div 2
         IN decodeRepeat(element, buf, mid, hi, decodeRepeat(element, buf, lo, mid, acc, cfg), cfg)

\* an array value from the accumulated sequence
AsArray(acc) == IF acc.err = "none" THEN Ok(Arr(acc.value), acc.offset) ELSE acc

decodeString(buf, offset, cfg) ==
    LET len == decodeLength(buf, offset, cfg)
        byteLength == Count(len.value)
    IN IF len.err # "none" THEN len
       ELSE IF ~InBounds(buf, len.offset, byteLength) THEN Err("RangeError", len.offset)
       ELSE Ok(TextDecode(SubSeq(buf, len.offset + 1, len.offset + byteLength)),
               len.offset + byteLength)

decodeCollection(t, buf, offset, cfg) ==
    LET len == decodeLength(buf, offset, cfg)
    IN IF len.err # "none" THEN len
       ELSE AsArray(decodeRepeat(t.element, buf, 0, Count(len.value), Ok(<<>>, len.offset), cfg))

decodeTuple(t, buf, offset, cfg) ==
    AsArray(decodeEach(t.elems, buf, 0, Len(t.elems), Ok(<<>>, offset), cfg))

decodeArray(t, buf, offset, cfg) ==
    AsArray(decodeRepeat(t.element, buf, 0, t.size, Ok(<<>>, offset), cfg))

decodeStruct(t, buf, offset, cfg) ==
    LET n == Len(t.fields)
        acc == decodeEach([i \in 1..n |-> t.fields[i].type], buf, 0, n, Ok(<<>>, offset), cfg)
        names == {t.fields[i].name : i \in 1..n}
    IN IF acc.err # "none" THEN acc
       ELSE Ok(Obj([nm \in names |->
                      acc.value[CHOOSE i \in 1..n : t.fields[i].name = nm
                                                    /\ \A j \in (i + 1)..n : t.fields[j].name # nm]]),
               acc.offset)

\* decodeEnum that takes an undeclared discriminant for the first variant
decodeEnum_Default(t, buf, offset, cfg) ==
    LET littleEndian == cfg.endian = "little"
        tag == IF cfg.intEncoding = "variant"
               THEN decodeVariantInt(offset, buf, u32, littleEndian)
               ELSE ReadFixed(buf, offset, 4, Num(GetUint(buf, offset, 4, littleEndian)))
    IN IF tag.err # "none" THEN tag
       ELSE LET found == Indexed(t, Bits(tag.value))
                variant == IF found = Null THEN t.variants[1] ELSE found
            IN IF variant.vkind # Null
               THEN LET r == decode(variant.vkind, buf, tag.offset, cfg)
                    IN IF r.err # "none" THEN r
                       ELSE Ok(EnumVariantValue(variant.name, r.value), r.offset)
               ELSE Ok(EnumVariantValue(variant.name, Undefined), tag.offset)

decodeEnum(t, buf, offset, cfg) ==
    LET littleEndian == cfg.endian = "little"
        tag == IF cfg.intEncoding = "variant"
               THEN decodeVariantInt(offset, buf, u32, littleEndian)
               ELSE ReadFixed(buf, offset, 4, Num(GetUint(buf, offset, 4, littleEndian)))
    IN IF tag.err # "none" THEN tag
       ELSE LET variant == Indexed(t, Bits(tag.value))
            IN IF variant = Null THEN Err("InvalidVariant", tag.offset)
               ELSE IF variant.vkind # Null
               THEN LET r == decode(variant.vkind, buf, tag.offset, cfg)
                    IN IF r.err # "none" THEN r
                       ELSE Ok(EnumVariantValue(variant.name, r.value), r.offset)
               ELSE Ok(EnumVariantValue(variant.name, Undefined), tag.offset)

\* variant: every non-zero tag byte taken as "present"
decodeOption_Truthy(t, buf, offset, cfg) ==
    IF ~InBounds(buf, offset, 1) THEN Err("RangeError", offset)
    ELSE IF buf[offset + 1] = 0 THEN Ok(Null, offset + 1)
    ELSE decode(t.optionType, buf, offset + 1, cfg)

decodeOption(t, buf, offset, cfg) ==
    IF ~InBounds(buf, offset, 1) THEN Err("RangeError", offset)
    ELSE LET variantFlag == buf[offset + 1]
         IN IF variantFlag = 0 THEN Ok(Null, offset + 1)
            ELSE IF variantFlag = 1 THEN decode(t.optionType, buf, offset + 1, cfg)
            ELSE Err("InvalidOptionVariant", offset + 1)

\* decode(type, buffer, offset, config): [value, offset, err]
decode(t, buf, offset, cfg) ==
    LET littleEndian == cfg.endian = "little"
        isVariantIntEncoding == cfg.intEncoding = "variant"
    IN IF OverLimit(offset, cfg) THEN Err("OverflowLimit", offset)
       ELSE IF ~isType(t) THEN Err("InvalidType", offset)
       ELSE IF UsesVarint(t, isVariantIntEncoding)
       THEN decodeVariantInt(offset, buf, t, littleEndian)
       ELSE CASE t.kind = "u8" -> ReadFixed(buf, offset, 1, Num(GetUint(buf, offset, 1, TRUE)))
              [] t.kind = "u16" -> ReadFixed(buf, offset, 2, Num(GetUint(buf, offset, 2, littleEndian)))
              [] t.kind = "u32" -> ReadFixed(buf, offset, 4, Num(GetUint(buf, offset, 4, littleEndian)))
              [] t.kind = "u64" -> ReadFixed(buf, offset, 8, Big(GetUint(buf, offset, 8, littleEndian)))
              [] t.kind = "u128" -> ReadFixed(buf, offset, 16, Big(getU128(buf, offset, littleEndian)))
              [] t.kind = "i8" -> ReadFixed(buf, offset, 1, Num(GetInt(buf, offset, 1, TRUE)))
              [] t.kind = "i16" -> ReadFixed(buf, offset, 2, Num(GetInt(buf, offset, 2, littleEndian)))
              [] t.kind = "i32" -> ReadFixed(buf, offset, 4, Num(GetInt(buf, offset, 4, littleEndian)))
              [] t.kind = "i64" -> ReadFixed(buf, offset, 8, Big(GetInt(buf, offset, 8, littleEndian)))
              [] t.kind = "i128" -> ReadFixed(buf, offset, 16, Big(getI128(buf, offset, littleEndian)))
              [] t.kind = "f16" -> Err("Unimplemented", offset)
              [] t.kind = "f32" -> ReadFixed(buf, offset, 4, getFloat32(buf, offset, littleEndian))
              [] t.kind = "f64" -> ReadFixed(buf, offset, 8, getFloat64(buf, offset, littleEndian))
              [] t.kind = "bool" -> ReadFixed(buf, offset, 1, Bool(GetUint(buf, offset, 1, TRUE) = FromNat(1)))
              [] t.kind = "String" -> decodeString(buf, offset, cfg)
              [] t.kind = "collection" -> decodeCollection(t, buf, offset, cfg)
              [] t.kind = "tuple" -> decodeTuple(t, buf, offset, cfg)
              [] t.kind = "array" -> decodeArray(t, buf, offset, cfg)
              [] t.kind = "struct" -> decodeStruct(t, buf, offset, cfg)
              [] t.kind = "enum" -> decodeEnum(t, buf, offset, cfg)
              [] t.kind = "option" -> decodeOption(t, buf, offset, cfg)
              [] OTHER -> Ok(Undefined, offset)

---------------------------------------------------------------------------
(* The descriptors and values the codec is run on *)

Width(t) ==
    CASE t.kind \in {"u8", "i8"} -> 8
      [] t.kind \in {"u16", "i16"} -> 16
      [] t.kind \in {"u32", "i32"} -> 32
      [] t.kind \in {"u64", "i64"} -> 64
      [] t.kind \in {"u128", "i128"} -> 128

\* Value<T> of an integer type: number up to 32 bits, bigint above
IntValue(t, a) == IF Width(t) <= 32 THEN Num(a) ELSE Big(a)

UnsignedBoundary(w) ==
    {Zero, FromNat(1), FromNat(250), Dec(Pow2(w))}
    \cup (IF w >= 16 THEN {FromNat(251), FromNat(65535)} ELSE {FromNat(251)})
    \cup (IF w >= 32 THEN {Pow2(16), Ones(32)} ELSE {})
    \cup (IF w >= 64 THEN {Pow2(32), Ones(64)} ELSE {})
    \cup (IF w >= 128 THEN {Pow2(64), Ones(128)} ELSE {})

SignedBoundary(w) ==
    {Zero, FromNat(1), FromInt(0 - 1), FromNat(125), FromInt(0 - 125), FromInt(0 - 126),
     Dec(Pow2(w - 1)), Neg(Pow2(w - 1))}
    \cup (IF w >= 16
          THEN {FromNat(126), Pow2(w - 2), Dec(Pow2(w - 2)), Neg(Pow2(w - 2)), Dec(Neg(Pow2(w - 2)))}
          ELSE {})
    \cup (IF w >= 32 THEN {Dec(Pow2(15)), Neg(Pow2(15)), Pow2(15)} ELSE {})
    \cup (IF w >= 64 THEN {Dec(Pow2(31)), Neg(Pow2(31)), Pow2(31)} ELSE {})
    \cup (IF w >= 128 THEN {Dec(Pow2(63)), Neg(Pow2(63)), Pow2(63)} ELSE {})

IntDomain(t) ==
    {IntValue(t, a) : a \in IF isSigned(t) THEN SignedBoundary(Width(t)) ELSE UnsignedBoundary(Width(t))}

\* scalar values of 1, 2, 3 and 4 UTF-8 bytes, and the byte order mark
Letters == {65, 233, 8364, 128512, BOM}

StringDomain ==
    {Str(<<>>), Str(<<72, 105>>), Str(<<233>>), Str(<<8364, 65>>), Str(<<128512>>),
     Str(<<65, BOM>>), Str(<<BOM, 65>>), Str([i \in 1..LongCount |-> 65])}

\* the values used for the children of a composite
IntSample(t) ==
    CASE t.kind = "u8" -> {Num(FromNat(7)), Num(FromNat(255))}
      [] t.kind = "i8" -> {Num(FromInt(0 - 2)), Num(FromNat(100))}
      [] t.kind = "u16" -> {Num(FromNat(30)), Num(FromNat(65535))}
      [] t.kind = "i16" -> {Num(FromInt(0 - 300)), Num(FromNat(5))}
      [] t.kind = "u32" -> {Num(FromNat(42)), Num(Pow2(16))}
      [] t.kind = "i32" -> {Num(FromInt(0 - 1)), Num(FromNat(70000))}
      [] t.kind = "u64" -> {Big(Pow2(40)), Big(Ones(64))}
      [] t.kind = "i64" -> {Big(Neg(Pow2(40))), Big(Pow2(62))}
      [] t.kind = "u128" -> {Big(Pow2(64)), Big(Ones(128))}
      [] t.kind = "i128" -> {Big(Neg(Pow2(100))), Big(Pow2(70))}

\* all sequences s of length n with s[i] in sets[i]
RECURSIVE Product(_, _)
Product(sets, n) ==
    IF n = 0 THEN {<<>>}
    ELSE {Append(s, x) : s \in Product(sets, n - 1), x \in sets[n]}

RECURSIVE Sample(_)
Sample(t) ==
    CASE isInt(t) -> IntSample(t)
      [] t.kind = "bool" -> {Bool(TRUE), Bool(FALSE)}
      [] t.kind = "String" -> {Str(<<>>), Str(<<72, 233>>)}
      [] t.kind = "tuple" ->
            \* a one-element tuple takes the bare value of its element
            IF Len(t.elems) = 1 THEN Sample(t.elems[1])
            ELSE {Arr(s) : s \in Product([i \in 1..Len(t.elems) |-> Sample(t.elems[i])], Len(t.elems))}
      [] t.kind = "array" ->
            {Arr(s) : s \in Product([i \in 1..t.size |-> Sample(t.element)], t.size)}
      [] t.kind = "collection" ->
            UNION {{Arr(s) : s \in Product([i \in 1..n |-> Sample(t.element)], n)} : n \in 0..MaxLen}
      [] t.kind = "struct" ->
            LET n == Len(t.fields)
            IN {Obj([nm \in {t.fields[i].name : i \in 1..n} |->
                        s[CHOOSE i \in 1..n : t.fields[i].name = nm]]) :
                    s \in Product([i \in 1..n |-> Sample(t.fields[i].type)], n)}
      [] t.kind = "enum" ->
            UNION {{EnumVariantValue(t.variants[i].name, p) :
                        p \in IF t.variants[i].vkind = Null THEN {Undefined}
                              ELSE Sample(t.variants[i].vkind)} : i \in 1..Len(t.variants)}
      [] t.kind = "option" -> {Null} \cup Sample(t.optionType)

Person == Struct(<<[name |-> "name", type |-> String], [name |-> "age", type |-> u8],
                   [name |-> "is_active", type |-> bool]>>)

Point == Struct(<<[name |-> "x", type |-> i16], [name |-> "y", type |-> u32]>>)

\* non-contiguous discriminants, one in each varint range a u32 has
Message ==
    Enum(<<Variant("Quit", FromNat(0), Null),
           Variant("Number", FromNat(5), Tuple(<<u32>>)),
           Variant("Pair", FromNat(300), Tuple(<<u8, bool>>)),
           Variant("Data", FromNat(70000), Point),
           Variant("Empty", FromNat(250), Unit)>>)

\* Result(ok, err)
Result(ok, err) == Enum(<<Variant("Ok", FromNat(0), Tuple(<<ok>>)), Variant("Err", FromNat(1), Tuple(<<err>>))>>)

Floats == {f16, f32, f64, f128}

Primitives == {u8, u16, u32, u64, u128, i8, i16, i32, i64, i128, bool, String}

Composites ==
    {Unit, Tuple(<<u32>>), Tuple(<<String>>), Tuple(<<u16, String>>), Tuple(<<u8, i16, bool>>),
     Tuple(<<Point, Unit>>), Tuple(<<u8, Unit>>),
     Array(u32, 0), Array(i16, 2), Array(u8, 3), Array(Point, 2),
     Collection(u8), Collection(u32), Collection(String), Collection(Tuple(<<String, u32>>)),
     Collection(Unit),
     Struct(<<>>), Person, Point, Struct(<<[name |-> "tags", type |-> Collection(u16)],
                                           [name |-> "next", type |-> Option(i32)]>>),
     Message, Result(u32, String),
     Option(u32), Option(String), Option(Point), Option(Option(u8))}

Descriptors == Primitives \cup Composites

\* extra values of particular descriptors: the five-element collection, and the
\* collection whose count needs a prefixed varint
Special(t) ==
    IF t = Collection(u32) THEN {Arr([i \in 1..5 |-> Num(FromNat(i))])}
    ELSE IF t = Collection(u8) THEN {Arr([i \in 1..LongCount |-> Num(Zero)])}
    ELSE {}

Domain(t) ==
    IF isInt(t) THEN IntDomain(t)
    ELSE IF t.kind = "String" THEN StringDomain
    ELSE Sample(t) \cup Special(t)

\* BincodeConfig.STANDARD, the config of a call made without a config argument
STANDARD == [endian |-> "little", intEncoding |-> "variant", limit |-> NoLimit]

Configs == [endian : {"little", "big"}, intEncoding : {"variant", "fixed"}, limit : {NoLimit}]

\* the encoder has no input: the program only decodes received bytes
NoValue == [k |-> "none"]

Pending == [value |-> Undefined, offset |-> 0, err |-> "pending"]

\* no earlier encode / decode pair on this buffer
NoCall == [type |-> Unit, value |-> NoValue, start |-> 0, dec |-> Pending]

Zeros(n) == [i \in 1..n |-> 0]

\* received byte strings: every kind of leading flag / tag / discriminant byte,
\* followed by a payload
Flags == {0, 1, 2, 3, 5, 250, U16_FLAG, U32_FLAG, U64_FLAG, U128_FLAG, 255}

Tails == {Zeros(20), [i \in 1..20 |-> i], [i \in 1..20 |-> 255]}

WireInputs ==
    {<<f>> \o tl : f \in Flags, tl \in Tails}
    \cup {<<0, 0, 0, d>> \o Zeros(17) : d \in {0, 3, 5}}
    \cup {<<U16_FLAG, 44, 1>> \o Zeros(18), <<U16_FLAG, 1, 44>> \o Zeros(18)}

\* descriptors decoded from received bytes
WireTypes == Descriptors \cup Floats

\* a collection of zero-width elements is decoded for as many elements as the
\* received count says, whatever the length of the buffer: such a descriptor
\* receives the inputs whose count is at most WireCountCap
Countable(t, w, cfg) ==
    t = Collection(Unit) =>
        LET len == decodeLength(w, 0, cfg)
        IN len.err = "none" /\ Count(len.value) <= WireCountCap

---------------------------------------------------------------------------
(* The Encoder / Decoder API: an Encoder that grows its own buffer, a      *)
(* Decoder that reads a loaded ArrayBuffer, and the types of rust-type.ts, *)
(* each a pair of encode and decode functions.  Only fixed-width integers  *)
(* are written: there is no varint mode.                                   *)

\* new Config()
Config == [littleEndian |-> TRUE, fixedArrayLength |-> FALSE]

\* new Encoder() / new Decoder(); err is the exception of the call in progress
\* ("diverges": the call does not return)
NewEncoder(cfg) == [buffer |-> Zeros(16), cursor |-> 0, config |-> cfg, err |-> "none"]

NewDecoder(cfg) == [buffer |-> <<>>, cursor |-> 0, config |-> cfg]

\* the two kinds of byte container a caller can hand to Decoder.load
Uint8Array(bytes) == [k |-> "Uint8Array", bytes |-> bytes]

ArrayBuffer(bytes) == [k |-> "ArrayBuffer", bytes |-> bytes]

NoView == [byteOffset |-> 0, byteLength |-> 0]

\* Str, Vec(T), Arr(T, length), Enum(variants) and empty of rust-type.ts;
\* Struct, Tuple and the integers have the shape of the descriptors above
RustType_Str == [kind |-> "Str"]

RustType_Vec(T) == [kind |-> "Vec", element |-> T]

RustType_Arr(T, length) == [kind |-> "Arr", element |-> T, length |-> length]

RustType_Enum(variants) == [kind |-> "Enum", types |-> variants]

empty == [kind |-> "empty"]

RustType_Result(T, E) == RustType_Enum(<<T, E>>)

\* Encoder.init(size)
Encoder_init(e, size) == [e EXCEPT !.buffer = Zeros(size), !.cursor = 0, !.err = "none"]

RECURSIVE Doubled(_, _)
\* while (newBufferSize <= nextCursor) newBufferSize *= 2: the size the loop
\* ends with, or 0 when an iteration leaves newBufferSize as it was and the
\* loop never ends
Doubled(newBufferSize, nextCursor) ==
    IF newBufferSize > nextCursor THEN newBufferSize
    ELSE IF 2 * newBufferSize = newBufferSize THEN 0
    ELSE Doubled(2 * newBufferSize, nextCursor)

\* Encoder.write(size): the encoder after the call; the view it returns
\* covers size bytes from the cursor before the call
Encoder_write(e, size) ==
    LET nextCursor == e.cursor + size
        bufferLength == Len(e.buffer)
    IN IF e.err # "none" THEN e
       ELSE IF nextCursor > bufferLength
       THEN LET newBufferSize == Doubled(2 * bufferLength, nextCursor)
            IN IF newBufferSize = 0 THEN [e EXCEPT !.err = "diverges"]
               ELSE [e EXCEPT !.buffer = e.buffer \o Zeros(newBufferSize - bufferLength),
                              !.cursor = nextCursor]
       ELSE [e EXCEPT !.cursor = nextCursor]

\* a store through the view that write returned at byte offset `at`
ViewSet(w, at, st) ==
    IF w.err # "none" THEN w ELSE [w EXCEPT !.buffer = st.buffer, !.err = st.err]

ViewOn(w) == [buffer |-> w.buffer, offset |-> 0, err |-> "none"]

\* encoder.write(n).setUintN(0, data, littleEndian)
WriteNumber(e, data, n) ==
    LET w == Encoder_write(e, n)
    IN ViewSet(w, e.cursor, SetNumber(ViewOn(w), e.cursor, data, n, e.config.littleEndian))

\* encoder.write(8).setBigUint64(0, data, littleEndian)
WriteBigInt(e, data) ==
    LET w == Encoder_write(e, 8)
    IN ViewSet(w, e.cursor, SetBigInt(ViewOn(w), e.cursor, data, e.config.littleEndian))

Encoder_writeLength(e, length) == WriteBigInt(e, Big(FromNat(length)))

Encoder_writeVariant(e, variant) == WriteNumber(e, Num(FromNat(variant)), 4)

RECURSIVE RustType_encode(_, _, _)
RECURSIVE RustType_encodeAll(_, _, _, _)

\* the for loops of the encode functions: children i..Len(types) in order
RustType_encodeAll(types, values, i, e) ==
    IF e.err # "none" \/ i > Len(types) THEN e
    ELSE RustType_encodeAll(types, values, i + 1, RustType_encode(types[i], values[i], e))

\* type.encode(data, encoder)
RustType_encode(t, data, e) ==
    CASE t.kind \in {"i32", "u32"} -> WriteNumber(e, data, 4)
      [] t.kind = "i64" -> WriteBigInt(e, data)
      [] t.kind = "empty" -> e
      [] t.kind = "Str" ->
            LET bytes == TextEncode(data)
                l == Encoder_writeLength(e, Len(bytes))
                w == Encoder_write(l, Len(bytes))
            IN ViewSet(w, l.cursor, Store(ViewOn(w), l.cursor, bytes))
      [] t.kind = "struct" ->
            RustType_encodeAll([i \in 1..Len(t.fields) |-> t.fields[i].type],
                               [i \in 1..Len(t.fields) |-> Field(data, t.fields[i].name)], 1, e)
      [] t.kind = "tuple" ->
            RustType_encodeAll(t.elems, [i \in 1..Len(t.elems) |-> Index(data, i - 1)], 1, e)
      [] t.kind = "Enum" ->
            LET tagged == Encoder_writeVariant(e, data.variant)
            IN IF data.variant + 1 \in DOMAIN t.types
               THEN RustType_encode(t.types[data.variant + 1], data.value, tagged)
               ELSE Fail(tagged, "TypeError")
      [] t.kind = "Arr" ->
            RustType_encodeAll([i \in 1..Len(data.items) |-> t.element], data.items, 1,
                               IF e.config.fixedArrayLength
                               THEN Encoder_writeLength(e, t.length) ELSE e)
      [] t.kind = "Vec" ->
            RustType_encodeAll([i \in 1..Len(data.items) |-> t.element], data.items, 1,
                               Encoder_writeLength(e, Len(data.items)))

\* Decoder.load(buffer): only an ArrayBuffer replaces the loaded buffer
Decoder_load(d, arg) ==
    [d EXCEPT !.cursor = 0, !.buffer = IF arg.k = "ArrayBuffer" THEN arg.bytes ELSE @]

\* Decoder.read(size): the cursor after the call, RangeError when the view
\* does not lie in the loaded buffer
Decoder_read(d, cursor, size) == ReadFixed(d.buffer, cursor, size, Undefined)

\* Decoder.readLength() / Decoder.readVariant(): [value, offset, err] with the
\* number read as value
Decoder_readLength(d, cursor) ==
    ReadFixed(d.buffer, cursor, 8, Big(GetUint(d.buffer, cursor, 8, d.config.littleEndian)))

Decoder_readVariant(d, cursor) ==
    ReadFixed(d.buffer, cursor, 4, Num(GetUint(d.buffer, cursor, 4, d.config.littleEndian)))

\* the result of type.decode(decoder): value, cursor and exception as for
\* decode above, and the type as the call leaves it
Decoded(r, t) == [value |-> r.value, offset |-> r.offset, err |-> r.err, type |-> t]

RECURSIVE RustType_decode(_, _, _)
RECURSIVE RustType_decodeAll(_, _, _, _)
RECURSIVE RustType_decodeN(_, _, _, _)

\* the for loops of Struct.decode and Tuple.decode
RustType_decodeAll(types, d, i, acc) ==
    IF acc.err # "none" \/ i > Len(types) THEN acc
    ELSE LET r == RustType_decode(types[i], d, acc.offset)
         IN RustType_decodeAll(types, d, i + 1,
                IF r.err # "none" THEN Err(r.err, r.offset)
                ELSE Ok(Append(acc.value, r.value), r.offset))

\* the for loop of Vec.decode and Arr.decode over the n elements still to come
RustType_decodeN(T, d, n, acc) ==
    IF acc.err # "none" \/ n = 0 THEN acc
    ELSE LET r == RustType_decode(T, d, acc.offset)
         IN RustType_decodeN(T, d, n - 1,
                IF r.err # "none" THEN Err(r.err, r.offset)
                ELSE Ok(Append(acc.value, r.value), r.offset))

\* type.decode(decoder) with the decoder's cursor at `cursor`.  A length of
\* 2^30 or more ends in a RangeError: new Array(length) throws from 2^32 on,
\* and below that the loop reads past the end of the loaded buffer.
RustType_decode(t, d, cursor) ==
    LET littleEndian == d.config.littleEndian
    IN CASE t.kind = "i32" ->
              Decoded(ReadFixed(d.buffer, cursor, 4, Num(GetInt(d.buffer, cursor, 4, littleEndian))), t)
         [] t.kind = "u32" ->
              Decoded(ReadFixed(d.buffer, cursor, 4, Num(GetUint(d.buffer, cursor, 4, littleEndian))), t)
         [] t.kind = "i64" ->
              Decoded(ReadFixed(d.buffer, cursor, 8, Big(GetUint(d.buffer, cursor, 8, littleEndian))), t)
         [] t.kind = "empty" -> Decoded(Ok(Undefined, cursor), t)
         [] t.kind = "Str" ->
              LET len == Decoder_readLength(d, cursor)
                  stringLength == Count(len.value)
                  bytes == Decoder_read(d, len.offset, stringLength)
              IN IF len.err # "none" THEN Decoded(len, t)
                 ELSE IF bytes.err # "none" THEN Decoded(bytes, t)
                 ELSE Decoded(Ok(TextDecode(SubSeq(d.buffer, len.offset + 1, bytes.offset)),
                                 bytes.offset), t)
         [] t.kind = "struct" ->
              LET r == RustType_decodeAll([i \in 1..Len(t.fields) |-> t.fields[i].type], d, 1,
                                          Ok(<<>>, cursor))
              IN IF r.err # "none" THEN Decoded(r, t)
                 ELSE Decoded(Ok(Obj([nm \in {t.fields[i].name : i \in 1..Len(t.fields)} |->
                                        r.value[CHOOSE i \in 1..Len(t.fields) : t.fields[i].name = nm]]),
                                 r.offset), t)
         [] t.kind = "tuple" ->
              Decoded(AsArray(RustType_decodeAll(t.elems, d, 1, Ok(<<>>, cursor))), t)
         [] t.kind = "Enum" ->
              LET tag == Decoder_readVariant(d, cursor)
                  variant == Count(tag.value)
              IN IF tag.err # "none" THEN Decoded(tag, t)
                 ELSE IF variant + 1 \notin DOMAIN t.types THEN Decoded(Err("TypeError", tag.offset), t)
                 ELSE LET r == RustType_decode(t.types[variant + 1], d, tag.offset)
                      IN IF r.err # "none" THEN Decoded(r, t)
                         ELSE Decoded(Ok(EnumVariantValue(variant, r.value), r.offset), t)
         [] t.kind = "Vec" ->
              LET len == Decoder_readLength(d, cursor)
                  length == Count(len.value)
              IN IF len.err # "none" THEN Decoded(len, t)
                 ELSE IF length >= 2 ^ 30 THEN Decoded(Err("RangeError", len.offset), t)
                 ELSE Decoded(AsArray(RustType_decodeN(t.element, d, length, Ok(<<>>, len.offset))), t)
         [] t.kind = "Arr" ->
              LET len == IF d.config.fixedArrayLength THEN Decoder_readLength(d, cursor)
                         ELSE Ok(Big(FromNat(t.length)), cursor)
                  length == Count(len.value)
                  after == RustType_Arr(t.element, length)
              IN IF len.err # "none" THEN Decoded(len, t)
                 ELSE IF length >= 2 ^ 30 THEN Decoded(Err("RangeError", len.offset), after)
                 ELSE Decoded(AsArray(RustType_decodeN(t.element, d, length, Ok(<<>>, len.offset))),
                              after)

\* the state of the Encoder / Decoder API
legacy == <<encoder, decoder, bincode, view>>

\* the Encoder / Decoder API is not used
Idle ==
    /\ encoder = NewEncoder(Config)
    /\ decoder = NewDecoder(Config)
    /\ bincode = Uint8Array(<<>>)
    /\ view = NoView

---------------------------------------------------------------------------
(* The program: one encode call on a zeroed caller buffer followed by one  *)
(* decode call on the same buffer, or one decode call on received bytes.   *)
(* start is the offset argument of both calls; prev is the pair of calls   *)
(* made before on the same buffer, when values are laid out back to back.  *)

Init ==
    /\ Idle
    /\ type \in Descriptors
    /\ value \in Domain(type) \cup {NoValue}
    /\ config \in Configs
    /\ buffer = Zeros(BufSize)
    /\ start = 0
    /\ prev = NoCall
    /\ enc = Pending
    /\ dec = Pending
    /\ pc = "start"

\* offset = encode(type, value, buffer, start, config)
Encode ==
    /\ pc = "start"
    /\ value # NoValue
    /\ LET r == encode(type, value, [buffer |-> buffer, offset |-> start, err |-> "none"], config)
       IN /\ buffer' = r.buffer
          /\ enc' = [value |-> Undefined, offset |-> r.offset, err |-> r.err]
    /\ pc' = "encoded"
    /\ UNCHANGED <<type, value, config, start, prev, dec, legacy>>

\* the caller's buffer holds bytes received from a peer
Receive ==
    /\ pc = "start"
    /\ value = NoValue
    /\ type \in WireTypes
    /\ \E w \in WireInputs : Countable(type, w, config) /\ buffer' = w
    /\ pc' = "received"
    /\ UNCHANGED <<type, value, config, start, prev, enc, dec, legacy>>

\* decode(type, buffer, start, config)
Decode ==
    /\ \/ pc = "encoded" /\ enc.err = "none"
       \/ pc = "received"
    /\ dec' = decode(type, buffer, start, config)
    /\ pc' = "decoded"
    /\ UNCHANGED <<type, value, config, buffer, start, prev, enc, legacy>>

Next == Encode \/ Receive \/ Decode

Spec == Init /\ [][Next]_vars

---------------------------------------------------------------------------
(* The same program at the edges of its contract: a start offset, a        *)
(* config.limit, a buffer too short for the encoding, integer values       *)
(* outside the range of their descriptor, the float descriptors, and two   *)
(* values laid out back to back in one buffer                              *)

\* a caller's buffer that holds earlier data
Fill(n) == [i \in 1..n |-> 170]

EdgeTypes ==
    {u8, i8, u16, u32, i32, u64, i64, u128, bool, String, f16, f32, f64, f128,
     Option(u32), Tuple(<<u16, String>>), Tuple(<<u8, Unit>>), Collection(u32), Point, Message}

\* integer values outside the range of the descriptor
OutOfRange(t) ==
    CASE t.kind = "u8" -> {Num(FromNat(256)), Num(FromInt(0 - 1))}
      [] t.kind = "i8" -> {Num(FromNat(128)), Num(FromInt(0 - 129))}
      [] t.kind = "u16" -> {Num(Pow2(16))}
      [] t.kind = "u32" -> {Num(Pow2(32))}
      [] t.kind = "i32" -> {Num(Pow2(31))}
      [] t.kind = "u64" -> {Big(Pow2(64)), Big(FromInt(0 - 1))}
      [] t.kind = "i64" -> {Big(Pow2(63))}
      [] t.kind = "u128" -> {Big(Pow2(128)), Big(FromInt(0 - 1))}
      [] OTHER -> {}

FloatSample == {Num(Zero), Num(FromNat(1)), Num(FromInt(0 - 2)), Num(Inc(Pow2(24)))}

EdgeDomain(t) ==
    IF t \in {u8, i8} THEN IntDomain(t) \cup OutOfRange(t)
    ELSE IF isInt(t) THEN IntSample(t) \cup OutOfRange(t)
    ELSE IF t \in Floats THEN FloatSample
    ELSE Sample(t)

\* [limit, size of the buffer, start offset] of a run
Scenarios ==
    {[limit |-> NoLimit, size |-> EdgeBufSize, start |-> o] : o \in {0, 3}}
    \cup {[limit |-> k, size |-> EdgeBufSize, start |-> 0] : k \in {1, 3, 6}}
    \cup {[limit |-> NoLimit, size |-> n, start |-> 0] : n \in {0, 2, 5}}

InitEdge ==
    /\ Idle
    /\ type \in EdgeTypes
    /\ value \in EdgeDomain(type) \cup {NoValue}
    /\ \E sc \in Scenarios, endian \in {"little", "big"}, intEncoding \in {"variant", "fixed"} :
          /\ config = [endian |-> endian, intEncoding |-> intEncoding, limit |-> sc.limit]
          /\ buffer = Fill(sc.size)
          /\ start = sc.start
    /\ prev = NoCall
    /\ enc = Pending
    /\ dec = Pending
    /\ pc = "start"

\* the values a caller appends after the first one
SeqItems ==
    {[type |-> u32, value |-> Num(Pow2(16))],
     [type |-> String, value |-> Str(<<72, 233>>)],
     [type |-> Option(u32), value |-> Null],
     [type |-> i64, value |-> Big(Neg(Pow2(40)))]}

\* the caller goes on with the next value, at the offset decode returned
Again ==
    /\ pc = "decoded" /\ value # NoValue /\ dec.err = "none" /\ prev = NoCall
    /\ config.limit = NoLimit /\ Len(buffer) = EdgeBufSize
    /\ \E item \in SeqItems : type' = item.type /\ value' = item.value
    /\ prev' = [type |-> type, value |-> value, start |-> start, dec |-> dec]
    /\ start' = dec.offset
    /\ enc' = Pending
    /\ dec' = Pending
    /\ pc' = "start"
    /\ UNCHANGED <<config, buffer, legacy>>

NextEdge == Encode \/ Receive \/ Decode \/ Again

SpecEdge == InitEdge /\ [][NextEdge]_vars

---------------------------------------------------------------------------
(* The programs of the Encoder / Decoder API: the round trip               *)
(* decoder.load(encoder.init().encodeAs(d, T)).decodeAs(T), with the       *)
(* Uint8Array itself or its ArrayBuffer handed to load; a decodeAs of      *)
(* bytes received from a peer; and a run of write calls on an encoder set  *)
(* up by init(n).                                                          *)

myTuple == Tuple(<<i32, RustType_Str>>)

MyEnum == RustType_Enum(<<i64, myTuple, empty>>)

myStruct == Struct(<<[name |-> "reason", type |-> RustType_Str], [name |-> "code", type |-> u32]>>)

\* an Arr is a descriptor of its own, never the child of another one
LegacyTypes ==
    {i32, i64, RustType_Str, empty, MyEnum, RustType_Vec(MyEnum), RustType_Result(i32, myStruct),
     RustType_Arr(myStruct, 2), RustType_Arr(u32, 3)}

RECURSIVE LegacyData(_)
LegacyData(t) ==
    CASE t.kind = "i32" -> {Num(FromInt(0 - 1)), Num(FromNat(400))}
      [] t.kind = "u32" -> {Num(FromNat(400)), Num(Ones(32))}
      [] t.kind = "i64" -> {Big(FromNat(123456789)), Big(Neg(Pow2(40)))}
      [] t.kind = "Str" -> {Str(<<>>), Str(<<72, 233>>)}
      [] t.kind = "empty" -> {Undefined}
      [] t.kind = "tuple" ->
            {Arr(s) : s \in Product([i \in 1..Len(t.elems) |-> LegacyData(t.elems[i])], Len(t.elems))}
      [] t.kind = "struct" ->
            LET n == Len(t.fields)
            IN {Obj([nm \in {t.fields[i].name : i \in 1..n} |->
                        s[CHOOSE i \in 1..n : t.fields[i].name = nm]]) :
                    s \in Product([i \in 1..n |-> LegacyData(t.fields[i].type)], n)}
      [] t.kind = "Enum" ->
            UNION {{EnumVariantValue(i - 1, p) : p \in LegacyData(t.types[i])} : i \in DOMAIN t.types}
      [] t.kind = "Vec" ->
            UNION {{Arr(s) : s \in Product([i \in 1..n |-> LegacyData(t.element)], n)} : n \in 0..MaxLen}
      [] t.kind = "Arr" ->
            {Arr(s) : s \in Product([i \in 1..t.length |-> LegacyData(t.element)], t.length)}

LegacyConfigs == [littleEndian : BOOLEAN, fixedArrayLength : BOOLEAN]

\* buffers received from a peer: a length of 2 or 1 (in one byte order) and
\* twelve more bytes, a variant 1 and eight bytes, nothing
LegacyReceived ==
    {ArrayBuffer(<<2, 0, 0, 0, 0, 0, 0, 0>> \o [i \in 1..12 |-> i]),
     ArrayBuffer(<<0, 0, 0, 0, 0, 0, 0, 1>> \o [i \in 1..12 |-> i]),
     ArrayBuffer(<<1, 0, 0, 0>> \o [i \in 1..8 |-> 255]),
     ArrayBuffer(<<>>)}

\* the sizes given to init and to write, and the cursor after which the
\* caller stops writing
InitSizes == {0, 1, 2, 5, 16}

WriteSizes == {0, 1, 3, 8}

MaxCursor == 20

InitLegacy ==
    /\ type \in LegacyTypes
    /\ value \in LegacyData(type)
    /\ \E cfg \in LegacyConfigs : encoder = NewEncoder(cfg) /\ decoder = NewDecoder(cfg)
    /\ bincode = Uint8Array(<<>>)
    /\ view = NoView
    /\ config = STANDARD
    /\ buffer = <<>>
    /\ start = 0
    /\ prev = NoCall
    /\ enc = Pending
    /\ dec = Pending
    /\ pc = "start"

\* encoder.init()
EncoderInit ==
    /\ pc = "start"
    /\ encoder' = Encoder_init(encoder, 16)
    /\ pc' = "init"
    /\ UNCHANGED <<type, value, config, buffer, start, prev, enc, dec, decoder, bincode, view>>

\* encoder.init(size)
EncoderInitSized ==
    /\ pc = "start"
    /\ \E size \in InitSizes : encoder' = Encoder_init(encoder, size)
    /\ pc' = "sized"
    /\ UNCHANGED <<type, value, config, buffer, start, prev, enc, dec, decoder, bincode, view>>

\* view = encoder.write(size), and the caller fills the view, byte i of the
\* output with i + 1
Write(size) ==
    /\ pc = "sized" /\ encoder.cursor <= MaxCursor
    /\ LET w == Encoder_write(encoder, size)
           marks == [i \in 1..size |-> encoder.cursor + i]
       IN /\ encoder' = ViewSet(w, encoder.cursor, Store(ViewOn(w), encoder.cursor, marks))
          /\ view' = IF w.err = "none" THEN [byteOffset |-> encoder.cursor, byteLength |-> size]
                     ELSE view
          /\ pc' = IF w.err = "none" THEN "sized" ELSE "write"
    /\ UNCHANGED <<type, value, config, buffer, start, prev, enc, dec, decoder, bincode>>

Writes == \E size \in WriteSizes : Write(size)

\* bincode = encoder.encodeAs(value, type)
EncodeAs ==
    /\ pc = "init"
    /\ LET e == RustType_encode(type, value, encoder)
       IN /\ encoder' = e
          /\ bincode' = IF e.err = "none" THEN Uint8Array(SubSeq(e.buffer, 1, e.cursor)) ELSE bincode
    /\ pc' = "encoded"
    /\ UNCHANGED <<type, value, config, buffer, start, prev, enc, dec, decoder, view>>

\* decoder.load(bincode)
Load ==
    /\ pc = "encoded" /\ encoder.err = "none"
    /\ decoder' = Decoder_load(decoder, bincode)
    /\ pc' = "loaded"
    /\ UNCHANGED <<type, value, config, buffer, start, prev, enc, dec, encoder, bincode, view>>

\* decoder.load(bincode.buffer)
LoadBuffer ==
    /\ pc = "encoded" /\ encoder.err = "none"
    /\ decoder' = Decoder_load(decoder, ArrayBuffer(bincode.bytes))
    /\ pc' = "loaded.buffer"
    /\ UNCHANGED <<type, value, config, buffer, start, prev, enc, dec, encoder, bincode, view>>

\* decoder.load(buffer) of a buffer received from a peer
LoadReceived ==
    /\ pc = "start"
    /\ \E arg \in LegacyReceived : decoder' = Decoder_load(decoder, arg)
    /\ pc' = "loaded.received"
    /\ UNCHANGED <<type, value, config, buffer, start, prev, enc, dec, encoder, bincode, view>>

\* decoder.decodeAs(type)
DecodeAs ==
    /\ pc \in {"loaded", "loaded.buffer", "loaded.received"}
    /\ LET r == RustType_decode(type, decoder, decoder.cursor)
       IN /\ dec' = [value |-> r.value, offset |-> r.offset, err |-> r.err]
          /\ decoder' = [decoder EXCEPT !.cursor = r.offset]
          /\ type' = r.type
    /\ pc' = CASE pc = "loaded" -> "decoded"
               [] pc = "loaded.buffer" -> "decoded.buffer"
               [] pc = "loaded.received" -> "decoded.received"
    /\ UNCHANGED <<value, config, buffer, start, prev, enc, encoder, bincode, view>>

NextLegacy ==
    EncoderInit \/ EncoderInitSized \/ Writes \/ EncodeAs \/ Load \/ LoadBuffer \/ LoadReceived \/ DecodeAs

SpecLegacy == InitLegacy /\ [][NextLegacy]_vars

---------------------------------------------------------------------------
(* Vocabulary of the properties *)

IsVariant == config.intEncoding = "variant"

IsLittle == config.endian = "little"

\* encode has returned or thrown
EncodeDone == pc \in {"encoded", "decoded"} /\ value # NoValue

\* encode and then decode have run on the same buffer
RoundTripDone == pc = "decoded" /\ value # NoValue

\* decode has run on received bytes
WireDone == pc = "decoded" /\ value = NoValue

\* the bytes encode wrote: buffer[0 .. returned offset)
Written == SubSeq(buffer, 1, enc.offset)

\* the n low bytes of u in the configured byte order
Payload(u, n) ==
    [i \in 1..n |-> IF IsLittle THEN ByteAt(u, i - 1) ELSE ByteAt(u, n - i)]

\* the varint table of the format
Varint(u) ==
    IF LessEq(u, FromNat(250)) THEN <<ByteAt(u, 0)>>
    ELSE IF LessEq(u, FromNat(65535)) THEN <<251>> \o Payload(u, 2)
    ELSE IF LessEq(u, Ones(32)) THEN <<252>> \o Payload(u, 4)
    ELSE IF LessEq(u, Ones(64)) THEN <<253>> \o Payload(u, 8)
    ELSE <<254>> \o Payload(u, 16)

\* a u64 length and a u32 discriminant under the active integer encoding
LengthPrefix(n) == IF IsVariant THEN Varint(FromNat(n)) ELSE Payload(FromNat(n), 8)

Discriminant(d) == IF IsVariant THEN Varint(d) ELSE Payload(d, 4)

StartsWith(bytes) == Len(bytes) <= Len(buffer) /\ SubSeq(buffer, 1, Len(bytes)) = bytes

\* the bytes encode writes for a value on its own, at offset 0 of a fresh buffer
EncodingOf(t, val) ==
    LET r == encode(t, val, [buffer |-> Zeros(BufSize), offset |-> 0, err |-> "none"], config)
    IN SubSeq(r.buffer, 1, r.offset)

RECURSIVE Concat(_, _)
Concat(seqs, n) == IF n = 0 THEN <<>> ELSE Concat(seqs, n - 1) \o seqs[n]

\* the number of UTF-8 bytes of a string
Utf8Len(cp) == IF cp < 128 THEN 1 ELSE IF cp < 2048 THEN 2 ELSE IF cp < 65536 THEN 3 ELSE 4

RECURSIVE ByteLength(_, _, _)
ByteLength(str, lo, hi) ==
    IF lo >= hi THEN 0
    ELSE IF hi = lo + 1 THEN Utf8Len(str[hi])
    ELSE ByteLength(str, lo, (lo + hi) \div 2) + ByteLength(str, (lo + hi) \div 2, hi)

UnsignedVarintTypes == {u16, u32, u64, u128}

SignedVarintTypes == {i16, i32, i64, i128}

\* the variant of an enum descriptor that an enum value names
DeclaredVariant(t, val) == VariantNamed(t, val.variant)

---------------------------------------------------------------------------
(* C1: round trip.  For every descriptor, value of its domain and config,  *)
(* encode on a large-enough buffer succeeds, and decode of the same buffer *)
(* yields a value equal to the encoded one and the offset encode returned. *)
C1_RoundTrip ==
    /\ EncodeDone => enc.err = "none"
    /\ RoundTripDone => dec.err = "none" /\ dec.value = value /\ dec.offset = enc.offset

(* C2: varint table.  In variant mode an unsigned quantity u (a u16, u32,  *)
(* u64, u128 primitive, a collection count, a string byte length, an enum  *)
(* discriminant) is written as [u], [251]+2, [252]+4, [253]+8 or [254]+16  *)
(* bytes by its range, payload in the configured byte order; a primitive   *)
(* takes exactly 1, 3, 5, 9 or 17 bytes.                                   *)
C2_VarintTable ==
    EncodeDone /\ IsVariant =>
        /\ type \in UnsignedVarintTypes =>
              /\ enc.err = "none"
              /\ Written = Varint(value.v)
              /\ enc.offset \in {1, 3, 5, 9, 17}
              /\ enc.offset = 1 <=> LessEq(value.v, FromNat(250))
              /\ enc.offset <= 3 <=> Less(value.v, Pow2(16))
              /\ enc.offset <= 5 <=> Less(value.v, Pow2(32))
              /\ enc.offset <= 9 <=> Less(value.v, Pow2(64))
        /\ type.kind = "collection" => enc.err = "none" /\ StartsWith(Varint(FromNat(Len(value.items))))
        /\ type.kind = "String" =>
              enc.err = "none" /\ StartsWith(Varint(FromNat(ByteLength(value.s, 0, Len(value.s)))))
        /\ type.kind = "enum" => enc.err = "none" /\ StartsWith(Varint(DeclaredVariant(type, value).expr))

C2_Witness ==
    /\ pc = "encoded" /\ IsVariant /\ ~IsLittle
    /\ type = u128 /\ value = Big(Pow2(64)) /\ enc.offset = 17

(* C3: varint decoding.  In variant mode the decoder reads a flag byte f:  *)
(* f <= 250 is the value, consuming 1 byte; f = 251, 252, 253, 254 yields  *)
(* the following 2, 4, 8, 16 byte unsigned payload, consuming 3, 5, 9, 17  *)
(* bytes; f = 255 fails with BigintOutOfRange and no value.  Decoding what *)
(* the encoder wrote for u yields u and consumes exactly the bytes written.*)
C3_VarintDecode ==
    /\ WireDone /\ IsVariant /\ type \in UnsignedVarintTypes =>
          LET f == buffer[1]
              n == CASE f = 251 -> 2 [] f = 252 -> 4 [] f = 253 -> 8 [] f = 254 -> 16 [] OTHER -> 0
              bytes == SubSeq(buffer, 2, 1 + n)
          IN IF f = 255 THEN dec.err = "BigintOutOfRange" /\ dec.value = Undefined
             ELSE /\ dec.err = "none"
                  /\ dec.offset = 1 + n
                  /\ Bits(dec.value) = IF f <= 250 THEN FromNat(f)
                                       ELSE FromBytesLE(IF IsLittle THEN bytes ELSE Reverse(bytes))
    /\ RoundTripDone /\ IsVariant /\ type \in UnsignedVarintTypes =>
          dec.err = "none" /\ Bits(dec.value) = value.v /\ dec.offset = enc.offset

C3_Witness ==
    /\ WireDone /\ IsVariant /\ type = u64 /\ buffer[1] = 255 /\ dec.err = "BigintOutOfRange"

\* zig(x): 2x for x >= 0 and -2x-1 for x < 0
Zig(x) == IF IsNeg(x) THEN Dec(Neg(Shl(x, 1))) ELSE Shl(x, 1)

(* C4: zigzag on the whole signed range.  For every value of a signed type *)
(* of width 16, 32, 64 or 128, large magnitudes included, variant-mode      *)
(* encode succeeds and writes the varint of zig(x).                        *)
C4_ZigzagWholeRange ==
    EncodeDone /\ IsVariant /\ type \in SignedVarintTypes =>
        enc.err = "none" /\ Written = Varint(Zig(value.v))

(* C5: zigzag at MIN.  The most negative value of each signed width is     *)
(* encoded in variant mode as the varint of the unsigned maximum of that   *)
(* width (i32 MIN: 252, 255, 255, 255, 255) and decodes to the same value. *)
C5_ZigzagMin ==
    IsVariant /\ type \in SignedVarintTypes
        /\ value = IntValue(type, Neg(Pow2(Width(type) - 1))) =>
        /\ EncodeDone =>
              /\ enc.err = "none"
              /\ Written = Varint(Ones(Width(type)))
              /\ type = i32 => Written = <<252, 255, 255, 255, 255>>
        /\ RoundTripDone => dec.err = "none" /\ dec.value = value /\ dec.offset = enc.offset

C5_Witness ==
    /\ RoundTripDone /\ IsVariant /\ type = i32 /\ value = Num(Neg(Pow2(31)))
    /\ dec.value = value

(* C6: fixed mode.  With intEncoding = fixed a collection count and a      *)
(* string byte length are 8 raw bytes, an enum discriminant 4 raw bytes,   *)
(* an integer primitive of width W exactly W/8 raw two's-complement bytes  *)
(* (no zigzag, no flag byte), all in the configured byte order;            *)
(* Collection(u32) holding 1..5 under {little, fixed} takes 28 bytes.      *)
C6_FixedMode ==
    EncodeDone /\ ~IsVariant =>
        /\ isInt(type) =>
              /\ enc.err = "none"
              /\ enc.offset = Width(type) \div 8
              /\ Written = Payload(value.v, Width(type) \div 8)
        /\ type.kind = "collection" => enc.err = "none" /\ StartsWith(Payload(FromNat(Len(value.items)), 8))
        /\ type.kind = "String" =>
              enc.err = "none" /\ StartsWith(Payload(FromNat(ByteLength(value.s, 0, Len(value.s))), 8))
        /\ type.kind = "enum" =>
              enc.err = "none" /\ StartsWith(Payload(DeclaredVariant(type, value).expr, 4))
        /\ type = Collection(u32) /\ Len(value.items) = 5 /\ IsLittle => enc.offset = 28

C6_Witness ==
    /\ pc = "encoded" /\ ~IsVariant /\ IsLittle
    /\ type = Collection(u32) /\ Len(value.items) = 5 /\ enc.offset = 28

(* C7: length-prefixed kinds.  A string is its UTF-8 byte length as a u64  *)
(* under the active length encoding followed by exactly that many UTF-8    *)
(* bytes; a collection is its element count followed by its elements in    *)
(* order.  Decode returns exactly those bytes of text / those elements in  *)
(* the same order; the empty string and the empty collection take 1 byte   *)
(* in variant mode and 8 bytes in fixed mode.                              *)
C7_LengthPrefixed ==
    /\ EncodeDone /\ type.kind = "String" =>
          LET n == ByteLength(value.s, 0, Len(value.s))
          IN /\ enc.err = "none"
             /\ enc.offset = Len(LengthPrefix(n)) + n
             /\ Written = LengthPrefix(n) \o TextEncode(value)
             /\ n = 0 => enc.offset = IF IsVariant THEN 1 ELSE 8
    /\ EncodeDone /\ type.kind = "collection" =>
          LET n == Len(value.items)
          IN /\ enc.err = "none"
             /\ Written = LengthPrefix(n)
                          \o Concat([i \in 1..n |-> EncodingOf(type.element, value.items[i])], n)
             /\ n = 0 => enc.offset = IF IsVariant THEN 1 ELSE 8
    /\ RoundTripDone /\ type.kind \in {"String", "collection"} =>
          dec.err = "none" /\ dec.value = value /\ dec.offset = enc.offset

\* the children of a product value, in declaration / index order
ChildTypes(t) ==
    CASE t.kind = "tuple" -> t.elems
      [] t.kind = "array" -> [i \in 1..t.size |-> t.element]
      [] t.kind = "struct" -> [i \in 1..Len(t.fields) |-> t.fields[i].type]

ChildValues(t, val) ==
    CASE t.kind = "tuple" -> IF Len(t.elems) = 1 THEN <<val>> ELSE val.items
      [] t.kind = "array" -> val.items
      [] t.kind = "struct" -> [i \in 1..Len(t.fields) |-> val.entries[t.fields[i].name]]

WireDiscriminant ==
    IF IsVariant
    THEN LET f == buffer[1]
             n == CASE f = 251 -> 2 [] f = 252 -> 4 [] f = 253 -> 8 [] f = 254 -> 16 [] OTHER -> 0
             bytes == SubSeq(buffer, 2, 1 + n)
         IN IF f <= 250 THEN FromNat(f) ELSE FromBytesLE(IF IsLittle THEN bytes ELSE Reverse(bytes))
    ELSE FromBytesLE(IF IsLittle THEN SubSeq(buffer, 1, 4) ELSE Reverse(SubSeq(buffer, 1, 4)))

Declares(t, d) == \E i \in 1..Len(t.variants) : t.variants[i].expr = d

C10_UnknownDiscriminant ==
    WireDone /\ type.kind = "enum" /\ ~(IsVariant /\ buffer[1] = 255) =>
        IF Declares(type, WireDiscriminant)
        THEN /\ dec.err # "InvalidVariant"
             /\ dec.err = "none" =>
                   DeclaredVariant(type, dec.value).expr = WireDiscriminant
        ELSE dec.err = "InvalidVariant" /\ dec.value = Undefined

C10_Witness ==
    /\ WireDone /\ type = Message /\ ~IsVariant /\ IsLittle
    /\ buffer[1] = 3 /\ WireDiscriminant = FromNat(3) /\ dec.err = "InvalidVariant"

---------------------------------------------------------------------------
C12_StrictBool ==
    /\ EncodeDone /\ type = bool =>
          enc.err = "none" /\ Written = <<IF value = Bool(TRUE) THEN 1 ELSE 0>>
    /\ WireDone /\ type = bool =>
          LET byte == buffer[1]
          IN /\ byte = 1 => dec = Ok(Bool(TRUE), 1)
             /\ byte = 0 => dec = Ok(Bool(FALSE), 1)
             /\ byte >= 2 => dec.err = "InvalidType"

(* C19: big-integer representation.  decode of a u64, i64, u128 or i128    *)
(* descriptor returns a bigint whatever the magnitude and the integer      *)
(* encoding, so a round-tripped 64/128-bit value keeps its representation. *)
C19_BigIntRepresentation ==
    pc = "decoded" /\ type \in {u64, i64, u128, i128} /\ dec.err = "none" =>
        /\ dec.value.k = "bigint"
        /\ value # NoValue => dec.value = value

---------------------------------------------------------------------------
(* Vocabulary of the properties at a start offset *)

\* the buffer as the caller handed it to the first encode
Untouched == Fill(Len(buffer))

\* the bytes encode wrote: buffer[start .. returned offset)
WrittenAt == SubSeq(buffer, start + 1, enc.offset)

\* what the same call does on a buffer that is long enough
Unbounded(t, val, cfg) ==
    encode(t, val, [buffer |-> Zeros(BufSize), offset |-> start, err |-> "none"], cfg)

(* C13: limit monotonicity.  With config.limit = k no encode or decode     *)
(* call, top-level or nested, touches a buffer byte at an index >= k: an   *)
(* encode leaves those bytes as they were and a call that succeeds ends at *)
(* an offset <= k; a call that would go further fails with OverflowLimit.  *)
C13_LimitMonotonic ==
    /\ EncodeDone /\ config.limit # NoLimit =>
          /\ \A i \in (config.limit + 1)..Len(buffer) : buffer[i] = Untouched[i]
          /\ enc.err = "none" => enc.offset <= config.limit
          /\ Unbounded(type, value, [config EXCEPT !.limit = NoLimit]).offset > config.limit
                => enc.err = "OverflowLimit"
    /\ pc = "decoded" /\ config.limit # NoLimit /\ dec.err = "none" =>
          dec.offset <= config.limit

(* C14: buffer overrun.  When the caller's buffer is too small for the     *)
(* encoding, or ends before the descriptor is fully decoded, the call      *)
(* fails with OverflowLimit.                                               *)
C14_BufferOverrun ==
    /\ EncodeDone =>
          LET r == Unbounded(type, value, config)
          IN r.err = "none" /\ r.offset > Len(buffer) => enc.err = "OverflowLimit"
    /\ pc = "decoded" =>
          LET r == decode(type, buffer \o Zeros(BufSize), start, config)
          IN r.err = "none" /\ r.offset > Len(buffer) => dec.err = "OverflowLimit"

(* C15: reserved floats.  encode and decode of f16 and of f128 fail with   *)
(* Unimplemented for every value, every buffer and both integer encodings, *)
(* and return neither a value nor an offset.                               *)
C15_ReservedFloats ==
    /\ EncodeDone /\ type \in {f16, f128} => enc.err = "Unimplemented"
    /\ pc = "decoded" /\ type \in {f16, f128} => dec.err = "Unimplemented"

(* C20: no silent truncation.  Encoding an integer value outside the range *)
(* of its descriptor fails with an error; it is never written reduced      *)
(* modulo 2^W.                                                             *)
C20_NoSilentTruncation ==
    EncodeDone /\ isInt(type) /\ value \in OutOfRange(type) => enc.err # "none"

(* C16: offset accounting.  A successful encode at start offset off        *)
(* returns off + n, n being the number of bytes it wrote (the bytes the    *)
(* same value takes at offset 0), and decode of those bytes at off returns *)
(* the same offset.  Values encoded back to back, each at the offset the   *)
(* previous call returned, are decoded back to back in the same order.     *)
C16_OffsetAccounting ==
    /\ EncodeDone /\ enc.err = "none" =>
          /\ enc.offset = start + Len(EncodingOf(type, value))
          /\ WrittenAt = EncodingOf(type, value)
    /\ RoundTripDone /\ enc.err = "none" =>
          dec.err = "none" /\ dec.offset = enc.offset
    /\ RoundTripDone /\ enc.err = "none" /\ prev # NoCall =>
          /\ start = prev.dec.offset
          /\ decode(prev.type, buffer, prev.start, config) = prev.dec
          /\ dec.value = value

C16_Witness ==
    /\ RoundTripDone /\ prev # NoCall /\ prev.type = Message /\ prev.start = 3
    /\ type = String /\ start > 3 /\ enc.offset = start + 4 /\ dec.offset = enc.offset
    /\ dec.value = value

(* C17: access window.  A successful encode leaves every buffer byte       *)
(* outside [offset, returned offset) unchanged; the result of decode       *)
(* depends only on the bytes in [offset, returned offset): a buffer that   *)
(* agrees on that window, or ends with it, decodes to the same value and   *)
(* offset.                                                                 *)
C17_AccessWindow ==
    /\ EncodeDone /\ enc.err = "none" /\ prev = NoCall =>
          \A i \in 1..Len(buffer) : (i <= start \/ i > enc.offset) => buffer[i] = Untouched[i]
    /\ pc = "decoded" /\ dec.err = "none" =>
          LET window == start < dec.offset
              other == [i \in 1..Len(buffer) |->
                           IF i > start /\ i <= dec.offset THEN buffer[i] ELSE 85]
              exact == SubSeq(buffer, 1, dec.offset)
          IN /\ decode(type, other, start, config) = dec
             /\ window => decode(type, exact, start, config) = dec

C17_Witness ==
    /\ RoundTripDone /\ prev = NoCall /\ start = 3 /\ type = Tuple(<<u16, String>>)
    /\ dec.err = "none" /\ dec.offset > start + 3
    /\ buffer[1] = 170 /\ buffer[dec.offset + 1] = 170

(* C18: mode-independent bytes.  u8 and i8 are written and read as one raw *)
(* byte in fixed and in variant mode (251..255 are a single byte, never a  *)
(* prefixed varint, never zigzagged); for u8, i8, bool, f32 and f64 the    *)
(* bytes written in variant mode equal the bytes written in fixed mode.    *)
C18_ModeIndependent ==
    LET other == [config EXCEPT !.intEncoding = IF @ = "variant" THEN "fixed" ELSE "variant"]
        raw == type \in {u8, i8} /\ value \notin OutOfRange(type)
    IN /\ EncodeDone /\ prev = NoCall /\ type \in {u8, i8, bool, f32, f64} =>
             encode(type, value, [buffer |-> Untouched, offset |-> start, err |-> "none"], other)
                 = [buffer |-> buffer, offset |-> enc.offset, err |-> enc.err]
       /\ EncodeDone /\ raw /\ enc.err = "none" =>
             enc.offset = start + 1 /\ buffer[start + 1] = ByteAt(value.v, 0)
       /\ RoundTripDone /\ raw /\ enc.err = "none" => dec = Ok(value, start + 1)
       /\ WireDone /\ type \in {u8, i8} /\ start < Len(buffer) =>
             dec = Ok(Num(IF type = i8 /\ buffer[start + 1] >= 128
                          THEN FromInt(buffer[start + 1] - 256)
                          ELSE FromNat(buffer[start + 1])), start + 1)

C18_Witness ==
    /\ RoundTripDone /\ IsVariant /\ type = u8 /\ value = Num(FromNat(251))
    /\ enc.offset = start + 1 /\ buffer[start + 1] = 251 /\ dec.value = value

---------------------------------------------------------------------------
\* a tuple descriptor of exactly one element
SingleTuple(t) == "kind" \in DOMAIN t /\ t.kind = "tuple" /\ Len(t.elems) = 1

\* the descriptor is a one-element tuple, or an enum whose encoded variant
\* carries a one-element tuple
SingleTupleCase ==
    \/ SingleTuple(type)
    \/ type.kind = "enum" /\ SingleTuple(DeclaredVariant(type, value).vkind)

(* C21: single-element tuple round trip.  For Tuple(T), directly or as the *)
(* payload of an enum variant, decoding what encode wrote for v returns a  *)
(* value equal to v.                                                       *)
C21_SingleTupleRoundTrip ==
    RoundTripDone /\ SingleTupleCase => dec.err = "none" /\ dec.value = value

(* C22: default configuration.  A call made without a config argument      *)
(* (BincodeConfig.STANDARD) writes integers and length prefixes at fixed   *)
(* width: encode of a u16, u32, u64 returns 2, 4, 8; a String takes 8 +    *)
(* its UTF-8 byte length; a Collection(u8) of n elements takes 8 + n.      *)
C22_DefaultFixedWidth ==
    EncodeDone /\ config = STANDARD =>
        /\ type = u16 => enc.offset = 2
        /\ type = u32 => enc.offset = 4
        /\ type = u64 => enc.offset = 8
        /\ type = String => enc.offset = 8 + ByteLength(value.s, 0, Len(value.s))
        /\ type = Collection(u8) => enc.offset = 8 + Len(value.items)

\* the value decode returns for the wire form bytes (padded with zeros)
DecodedFrom(t, bytes) == decode(t, bytes \o Zeros(8), 0, config).value

(* C26: nested option.  For Option(Option(T)) the wire forms [0] (outer     *)
(* absent) and [1, 0] (outer present, inner absent) decode to different    *)
(* values, and encoding the value decoded from [1, 0] writes [1, 0] again. *)
C26_NestedOption ==
    WireDone /\ type = Option(Option(u8)) /\ buffer[1] = 1 /\ buffer[2] = 0 =>
        /\ dec.err = "none"
        /\ dec.value # DecodedFrom(type, <<0>>)
        /\ EncodingOf(type, dec.value) = <<1, 0>>

\* the range of an integer descriptor: 0..2^W-1 unsigned, -2^(W-1)..2^(W-1)-1 signed
InRange(t, a) ==
    IF isSigned(t)
    THEN LessEq(Neg(Pow2(Width(t) - 1)), a) /\ Less(a, Pow2(Width(t) - 1))
    ELSE ~IsNeg(a) /\ Less(a, Pow2(Width(t)))

(* C27: decoded integers stay in range.  In variant mode, for every input  *)
(* byte sequence, decode of an integer descriptor of width W fails or      *)
(* returns a value inside the range of that descriptor.                    *)
C27_DecodedInRange ==
    WireDone /\ IsVariant /\ isInt(type) /\ dec.err = "none" =>
        dec.value.k \in {"number", "bigint"} /\ InRange(type, dec.value.v)

\* a descriptor whose encoding is empty: the unit tuple, the empty struct, a size-0 array
ZeroWidth(t) ==
    \/ t.kind = "tuple" /\ Len(t.elems) = 0
    \/ t.kind = "struct" /\ Len(t.fields) = 0
    \/ t.kind = "array" /\ t.size = 0

\* a tuple of two or more children, or a struct
IsProduct(t) ==
    \/ t.kind = "tuple" /\ Len(t.elems) >= 2
    \/ t.kind = "struct" /\ Len(t.fields) >= 1

LastChild(t) == ChildTypes(t)[Len(ChildTypes(t))]

\* the same decode call without a limit
UnboundedDecode == decode(type, buffer, start, [config EXCEPT !.limit = NoLimit])

OwnPrefix(t, val) ==
    CASE t.kind = "collection" -> LengthPrefix(Len(val.items))
      [] t.kind = "enum" -> Discriminant(DeclaredVariant(t, val).expr)
      [] t.kind = "option" -> IF val = Null THEN <<0>> ELSE <<1>>
      [] OTHER -> <<>>

\* the children of a composite value, in the order encode visits them
KidTypes(t, val) ==
    CASE t.kind = "collection" -> [i \in 1..Len(val.items) |-> t.element]
      [] t.kind = "enum" -> IF DeclaredVariant(t, val).vkind = Null THEN <<>>
                            ELSE <<DeclaredVariant(t, val).vkind>>
      [] t.kind = "option" -> IF val = Null THEN <<>> ELSE <<t.optionType>>
      [] OTHER -> ChildTypes(t)

KidValues(t, val) ==
    CASE t.kind = "collection" -> val.items
      [] t.kind = "enum" -> IF DeclaredVariant(t, val).vkind = Null THEN <<>> ELSE <<val.value>>
      [] t.kind = "option" -> IF val = Null THEN <<>> ELSE <<val>>
      [] OTHER -> ChildValues(t, val)

\* the encoding of a value when neither the buffer nor a limit stops it
FreeEncoding(t, val) ==
    LET r == encode(t, val, [buffer |-> Zeros(BufSize), offset |-> 0, err |-> "none"],
                    [config EXCEPT !.limit = NoLimit])
    IN SubSeq(r.buffer, 1, r.offset)

RECURSIVE BeforeKid(_, _, _)
\* what the composite has written when it reaches child k: its own prefix and
\* the encodings of the children before k
BeforeKid(t, val, k) ==
    IF k = 1 THEN OwnPrefix(t, val)
    ELSE BeforeKid(t, val, k - 1) \o FreeEncoding(KidTypes(t, val)[k - 1], KidValues(t, val)[k - 1])

\* child k, encoded on its own at the offset the composite reaches it, fails
KidFails(t, val, k) ==
    LET o == start + Len(BeforeKid(t, val, k))
    IN /\ o <= Len(buffer)
       /\ encode(KidTypes(t, val)[k], KidValues(t, val)[k],
                 [buffer |-> Untouched, offset |-> o, err |-> "none"], config).err # "none"

IsComposite(t) == t.kind \in {"tuple", "struct", "array", "collection", "enum", "option"}

FailsAtKid(k) ==
    /\ EncodeDone /\ IsComposite(type) /\ enc.err # "none" /\ ~OverLimit(start, config)
    /\ k \in 1..Len(KidTypes(type, value))
    /\ KidFails(type, value, k)
    /\ \A j \in 1..(k - 1) : ~KidFails(type, value, j)

(* C29: encode is not atomic.  When the encode of a composite fails while  *)
(* encoding child k, the bytes written for the length prefix, tag or       *)
(* discriminant and for the children before k remain in the buffer, no     *)
(* offset is returned, and every byte at and after the start offset of     *)
(* child k is unchanged.                                                   *)
C29_NotAtomic ==
    EncodeDone /\ IsComposite(type) =>
      \A k \in 1..Len(KidTypes(type, value)) :
        FailsAtKid(k) =>
            LET before == BeforeKid(type, value, k)
                o == start + Len(before)
            IN /\ SubSeq(buffer, start + 1, o) = before
               /\ enc.value = Undefined
               /\ SubSeq(buffer, o + 1, Len(buffer)) = Fill(Len(buffer) - o)

(* C29 as the code has it: the failing child may itself have written a     *)
(* leading part of its own encoding (a varint flag byte, a length prefix,  *)
(* its first children) from its start offset on; what the composite wrote  *)
(* before child k remains, and every byte after that leading part is       *)
(* unchanged.                                                              *)
C29_NotAtomicPartial ==
    EncodeDone /\ IsComposite(type) =>
      \A k \in 1..Len(KidTypes(type, value)) :
        FailsAtKid(k) =>
            LET before == BeforeKid(type, value, k)
                o == start + Len(before)
                kid == FreeEncoding(KidTypes(type, value)[k], KidValues(type, value)[k])
                tail == SubSeq(buffer, o + 1, Len(buffer))
            IN /\ SubSeq(buffer, start + 1, o) = before
               /\ SubSeq(buffer, 1, start) = Fill(start)
               /\ enc.value = Undefined
               /\ \E n \in 0..Len(kid) :
                     /\ n <= Len(tail)
                     /\ tail = SubSeq(kid, 1, n) \o Fill(Len(tail) - n)

C29_Witness ==
    /\ FailsAtKid(2) /\ type = Tuple(<<u16, String>>) /\ Len(buffer) = 2
    /\ buffer[1] # 170 /\ buffer[2] = Len(value.items[2].s)

(* C25: bounded work.  A collection count read from the wire cannot drive  *)
(* more element decodes than the remaining bytes of the buffer allow, also *)
(* when the element kind is zero-width: a decode that ends with a value    *)
(* has decoded at most as many elements as there are bytes after the       *)
(* offset it was given.                                                    *)
C25_BoundedWork ==
    WireDone /\ type.kind = "collection" /\ dec.err = "none" =>
        Len(dec.value.items) <= Len(buffer) - start

(* C24: round trip of the Encoder / Decoder API.  For every type T and     *)
(* value d, decoder.load(encoder.init().encodeAs(d, T)).decodeAs(T)        *)
(* returns a value equal to d: load makes the decoder read the bytes it    *)
(* was just given from cursor 0.                                           *)
C24_LegacyRoundTrip ==
    pc = "decoded" => dec.err = "none" /\ dec.value = value

(* C23: descriptor immutability.  No encode or decode call changes a       *)
(* descriptor; in particular a fixed-array descriptor keeps the size it    *)
(* was constructed with.                                                   *)
C23_DescriptorImmutable == [][type' = type]_vars

(* C30: growth of the Encoder.  After init(n), n >= 0, every write(size)   *)
(* returns: it gives a view of exactly size bytes at the cursor before the *)
(* call, advances the cursor by exactly size, keeps the cursor within the  *)
(* capacity, and keeps every byte written before it.                       *)
C30_EncoderGrowth ==
    [][\A size \in WriteSizes :
          Write(size) =>
              /\ encoder'.err = "none"
              /\ view' = [byteOffset |-> encoder.cursor, byteLength |-> size]
              /\ encoder'.cursor = encoder.cursor + size
              /\ encoder'.cursor <= Len(encoder'.buffer)
              /\ SubSeq(encoder'.buffer, 1, encoder.cursor) = SubSeq(encoder.buffer, 1, encoder.cursor)]_vars

====
